---- MODULE Spec2Model ----
(***************************************************************************)
(* A model of the api-iras REST gateway (Go, gin + gorm).                  *)
(*                                                                         *)
(* The state is the relational store (one sequence of rows per table, the  *)
(* position of a row being its auto-increment primary key), the process    *)
(* configuration read at start-up, a wall clock with one-second            *)
(* resolution, the requests that are between two database statements, and  *)
(* the last response written to a client.  Every handler is one action,    *)
(* except the handlers that issue more than one database statement: gorm   *)
(* commits each statement on its own, so those handlers are one action per *)
(* statement and other requests may run in between.                        *)
(*                                                                         *)
(* Strings that the code inspects (TrimSpace, HasPrefix, Replace) are      *)
(* modelled as the code inspects them: an Authorization header is a        *)
(* sequence of lexemes, a caller-supplied identifier is drawn from a set   *)
(* that contains the empty string, a blank string and padded values.       *)
(* Failures of the database connection itself are not modelled.            *)
(***************************************************************************)
EXTENDS Integers, Sequences, FiniteSets, TLC

VARIABLES
    envVar,      \* value of the ENV environment variable ("" when unset)
    now,         \* wall clock, in whole seconds
    reqs,        \* number of requests accepted so far (bounds the model)
    schema,      \* which unique indexes the migrated tables carry
    gst,         \* table gst_registrations
    gstDeleted,  \* history: ids on which DeleteGSTRegistration succeeded
    cit,         \* table cit_conversion_records
    citCalls,    \* ConvertFormCS calls: position, request id, response
    rental,      \* table rental_submission_records
    stmt,        \* table property_consolidated_statement_records
    bal,         \* table property_tax_balance_records
    spAuth,      \* table sing_pass_auth_records
    spToken,     \* table sing_pass_token_records
    spCalls,     \* SingPassServiceAuthToken calls between insert and update
    users,       \* table users
    regCalls,    \* Register calls between their statements
    last         \* the last response written, with the request it answers

vars == <<envVar, now, reqs, schema, gst, gstDeleted, cit, citCalls, rental,
          stmt, bal, spAuth, spToken, spCalls, users, regCalls, last>>

(***************************************************************************)
(* Bounds of the model.                                                    *)
(***************************************************************************)
MaxRequests == 3
MaxClock == 1

(***************************************************************************)
(* Small helpers.                                                          *)
(***************************************************************************)
Range(s) == {s[i] : i \in DOMAIN s}

Min(S) == CHOOSE x \in S : \A y \in S : x <= y

\* strings.TrimSpace on the identifiers the model draws: "" and " " are
\* blank, " C1" is the padded form of "C1".
TrimSpace(s) ==
    CASE s = " " -> ""
      [] s = " C1" -> "C1"
      [] OTHER -> s

NoData == [none |-> TRUE]

\* A request is accepted: the model stops after MaxRequests of them.
Accept == reqs < MaxRequests /\ reqs' = reqs + 1

\* The top-level keys of the JSON body of an IRAS-style response
\* (models.GSTResponse and its like): returnCode, with data and info when
\* they are set (omitempty).  A message code is a number or a string.
IRASKeys(mc, fields, data) ==
    {"returnCode"} \cup (IF data # NoData THEN {"data"} ELSE {})
                   \cup (IF ToString(mc) # "0" \/ fields # <<>> THEN {"info"} ELSE {})

\* The shape of every response the model records; keys are the top-level
\* keys of its JSON body.
Response(op, http, rc, mc, fields, data, req) ==
    [op |-> op, http |-> http, rc |-> rc, mc |-> mc, fields |-> fields,
     data |-> data, req |-> req, parsed |-> FALSE, service |-> FALSE,
     role |-> "", handler |-> FALSE, keys |-> IRASKeys(mc, fields, data)]

(***************************************************************************)
(* Configuration: config.InitConfig and getEnv.                            *)
(***************************************************************************)
EnvValues == {"", "development", "production"}

\* getEnv: the variable's value, or the default when it is unset or empty.
getEnv(value, defaultValue) == IF value # "" THEN value ELSE defaultValue

\* config.AppConfig.Env
AppEnv == getEnv(envVar, "development")

\* config.AppConfig.JWTSecret
JWTSecret == "default-secret-key"

\* config.AppConfig.IBMClientID / IBMClientSecret: the defaults that fill
\* missing headers in development mode.
IBMClientID == "cfg-client-id"

IBMClientSecret == "cfg-client-secret"

(***************************************************************************)
(* The X-IBM-Client-Id / X-IBM-Client-Secret gate at the head of the       *)
(* IRAS-spec handlers.  A header value is "" when the header is absent.    *)
(***************************************************************************)
HeaderValues ==
    { [id |-> "K1", secret |-> "S1"], [id |-> "K1", secret |-> ""],
      [id |-> "", secret |-> ""] }

LacksHeader(h) == h.id = "" \/ h.secret = ""

FilledID(env, h) == IF env = "development" /\ h.id = "" THEN IBMClientID ELSE h.id

FilledSecret(env, h) ==
    IF env = "development" /\ h.secret = "" THEN IBMClientSecret ELSE h.secret

\* if clientID == "" || clientSecret == "" { 401 }
HeaderGate(env, h) == ~(FilledID(env, h) = "" \/ FilledSecret(env, h) = "")

\* CalPubListedCompanyShares / CalIndustrialSSD:
\* if Env != "development" && (clientID == "" || clientSecret == "") { 400 }
HeaderGateSD(env, h) ==
    ~(env # "development" /\ (FilledID(env, h) = "" \/ FilledSecret(env, h) = ""))

(***************************************************************************)
(* middleware.AuthRequired.  An Authorization header is a sequence of      *)
(* lexemes; <<>> is the absent header.                                     *)
(***************************************************************************)
AuthHeaders ==
    { <<>>, <<"Bearer ">>, <<"demo-token">>, <<"Bearer ", "demo">>,
      <<"Bearer ", "demo-token">>, <<"Bearer ", "demo-token", "-abc">>,
      <<"Bearer ", "jwt-admin">>, <<"Bearer ", "jwt-user">>,
      <<"Bearer ", "jwt-expired">>, <<"Bearer ", "jwt-forged">> }

\* strings.Replace(s, old, "", 1): drop the first occurrence of old.
RECURSIVE ReplaceFirst(_, _)
ReplaceFirst(s, old) ==
    IF s = <<>> THEN <<>>
    ELSE IF Head(s) = old THEN Tail(s)
    ELSE <<Head(s)>> \o ReplaceFirst(Tail(s), old)

HasPrefix(s, lexeme) == s # <<>> /\ Head(s) = lexeme

LexLen(l) ==
    CASE l = "Bearer " -> 7
      [] l = "demo-token" -> 10
      [] l = "-abc" -> 4
      [] l = "demo" -> 4
      [] OTHER -> 120

RECURSIVE StrLen(_)
StrLen(s) == IF s = <<>> THEN 0 ELSE LexLen(Head(s)) + StrLen(Tail(s))

DemoTokenMinLen == 10

\* The tokens the model knows: who signed them, whether they have expired,
\* and the claims they carry.
JWTClaims(l) ==
    CASE l = "jwt-admin" -> [signedWith |-> JWTSecret, expired |-> FALSE,
                              user_id |-> "1", role |-> "admin"]
      [] l = "jwt-user" -> [signedWith |-> JWTSecret, expired |-> FALSE,
                             user_id |-> "2", role |-> "user"]
      [] l = "jwt-expired" -> [signedWith |-> JWTSecret, expired |-> TRUE,
                                user_id |-> "2", role |-> "user"]
      [] l = "jwt-forged" -> [signedWith |-> "other-secret", expired |-> FALSE,
                               user_id |-> "1", role |-> "admin"]
      [] OTHER -> [signedWith |-> "", expired |-> TRUE, user_id |-> "", role |-> ""]

\* utils.ValidateJWT: the token parses, is signed with the secret and has
\* not expired.
ValidateJWT(tok, secret) ==
    /\ Len(tok) = 1
    /\ JWTClaims(tok[1]).signedWith = secret
    /\ ~JWTClaims(tok[1]).expired

\* "For development: accept simple demo tokens": the test the source makes.
\* It does not consult the runtime mode.
DemoBypass(env, tok) ==
    /\ HasPrefix(tok, "demo-token")
    /\ StrLen(tok) >= DemoTokenMinLen

\* The outcome of the middleware: abort with 401, or call the next handler
\* with user_id and role set in the context.
AuthRequired(env, authHeader) ==
    LET tok == ReplaceFirst(authHeader, "Bearer ") IN
    IF authHeader = <<>> THEN
        [abort |-> TRUE, http |-> 401, message |-> "Authorization header required",
         user_id |-> "", role |-> ""]
    ELSE IF tok = <<>> THEN
        [abort |-> TRUE, http |-> 401, message |-> "Invalid token format",
         user_id |-> "", role |-> ""]
    ELSE IF DemoBypass(env, tok) THEN
        [abort |-> FALSE, http |-> 0, message |-> "",
         user_id |-> "999", role |-> "admin"]
    ELSE IF ~ValidateJWT(tok, JWTSecret) THEN
        [abort |-> TRUE, http |-> 401, message |-> "Invalid token",
         user_id |-> "", role |-> ""]
    ELSE
        [abort |-> FALSE, http |-> 0, message |-> "",
         user_id |-> JWTClaims(tok[1]).user_id, role |-> JWTClaims(tok[1]).role]

\* What a protected route answers when the middleware aborts: a gin.H with
\* success and message, and error when the token did not validate.
Unauthorized(op, a, authHeader) ==
    [Response(op, a.http, -1, 0, <<>>, NoData, [auth |-> authHeader])
        EXCEPT !.role = a.role,
               !.keys = {"success", "message"}
                           \cup (IF a.message = "Invalid token" THEN {"error"} ELSE {})]

(***************************************************************************)
(* GST registrations: services.GSTService and controllers.GSTController.   *)
(* A row is never removed; gorm.DeletedAt makes Delete an update of the    *)
(* deleted_at column and adds "deleted_at IS NULL" to every query and      *)
(* update of the model.                                                    *)
(***************************************************************************)
GSTPayloads ==
    { [name |-> "Acme Pte Ltd", gstNo |-> "M2-0000001-1", regFrom |-> "2020-01-01",
       regTo |-> "", remarks |-> "", status |-> "Registered"],
      [name |-> "Best Co", gstNo |-> "M2-0000002-2", regFrom |-> "2019-06-01",
       regTo |-> "2023-06-01", remarks |-> "cancelled", status |-> "Deregistered"] }

GSTRow(clientID, regID, p) ==
    [clientID |-> clientID, regID |-> regID, name |-> p.name, gstNo |-> p.gstNo,
     regFrom |-> p.regFrom, regTo |-> p.regTo, remarks |-> p.remarks,
     status |-> p.status, deleted |-> FALSE]

\* The rows a default query sees: deleted_at IS NULL.
GSTVisible(rows) == {i \in DOMAIN rows : ~rows[i].deleted}

\* models.GSTData as SearchGSTRegistered fills it.
GSTData(row) ==
    [name |-> row.name, gstRegistrationNumber |-> row.gstNo,
     registrationId |-> row.regID, RegisteredFrom |-> row.regFrom,
     RegisteredTo |-> row.regTo, Remarks |-> row.remarks, Status |-> row.status]

\* The query without its client_id condition.
GSTMatchRegOnly(rows, req) ==
    {i \in GSTVisible(rows) : rows[i].regID = req.regID}

\* WHERE registration_id = ? AND client_id = ?
GSTMatch(rows, req) ==
    {i \in GSTVisible(rows) :
        rows[i].regID = req.regID /\ rows[i].clientID = req.clientID}

\* GSTService.SearchGSTRegistered
GSTSearchService(rows, req) ==
    IF TrimSpace(req.clientID) = "" THEN
        [rc |-> 40, mc |-> 40001, fields |-> <<"clientID">>, data |-> NoData]
    ELSE IF TrimSpace(req.regID) = "" THEN
        [rc |-> 40, mc |-> 40002, fields |-> <<"regID">>, data |-> NoData]
    ELSE IF GSTMatch(rows, req) = {} THEN
        [rc |-> 20, mc |-> 20001, fields |-> <<>>, data |-> NoData]
    ELSE
        [rc |-> 10, mc |-> 0, fields |-> <<>>,
         data |-> GSTData(rows[Min(GSTMatch(rows, req))])]

\* "Return response based on return code"
GSTStatus(rc) ==
    CASE rc = 10 -> 200
      [] rc = 20 -> 404
      [] rc = 40 -> 400
      [] OTHER -> 500

GSTBodies ==
    {[json |-> TRUE, clientID |-> c, regID |-> r] :
        c \in {"", " ", "C1", " C1"}, r \in {"", "R1", "R2"}}
    \cup {[json |-> FALSE, clientID |-> "", regID |-> ""]}

\* "Override clientID from header if provided"
GSTEffectiveRequest(env, h, body) ==
    [clientID |-> IF body.clientID = "" THEN FilledID(env, h) ELSE body.clientID,
     regID |-> body.regID]

\* A lookup that stores the pair it did not find.
SearchGSTRegisteredSeeding(h, body) ==
    /\ Accept
    /\ LET in == [headers |-> h, body |-> body]
           req == GSTEffectiveRequest(AppEnv, h, body)
           r == GSTSearchService(gst, req)
           served == HeaderGate(AppEnv, h) /\ body.json
       IN /\ last' =
               IF ~served
               THEN Response("SearchGSTRegistered", 401, 40, 40003, <<"headers">>,
                             NoData, in)
               ELSE [Response("SearchGSTRegistered", GSTStatus(r.rc), r.rc, r.mc,
                              r.fields, r.data, in)
                        EXCEPT !.parsed = TRUE, !.service = TRUE]
          /\ gst' = IF served /\ r.rc = 20
                    THEN Append(gst, GSTRow(req.clientID, req.regID,
                                            CHOOSE p \in GSTPayloads : TRUE))
                    ELSE gst
    /\ UNCHANGED <<envVar, now, schema, gstDeleted, cit, citCalls, rental,
                   stmt, bal, spAuth, spToken, spCalls, users, regCalls>>

\* GSTController.SearchGSTRegistered: POST /iras/prod/GSTListing/SearchGSTRegistered
SearchGSTRegistered(h, body) ==
    /\ Accept
    /\ LET in == [headers |-> h, body |-> body]
           req == GSTEffectiveRequest(AppEnv, h, body)
           r == GSTSearchService(gst, req)
       IN last' =
            IF ~HeaderGate(AppEnv, h) THEN
                Response("SearchGSTRegistered", 401, 40, 40003, <<"headers">>, NoData, in)
            ELSE IF ~body.json THEN
                Response("SearchGSTRegistered", 400, 40, 40004, <<"body">>, NoData, in)
            ELSE
                [Response("SearchGSTRegistered", GSTStatus(r.rc), r.rc, r.mc,
                          r.fields, r.data, in)
                    EXCEPT !.parsed = TRUE, !.service = TRUE]
    /\ UNCHANGED <<envVar, now, schema, gst, gstDeleted, cit, citCalls,
                   rental, stmt, bal, spAuth, spToken, spCalls, users,
                   regCalls>>

\* The JSON keys of models.GSTRegistration with its BaseModel (deleted_at
\* is left out while it is not set).
GSTRegistrationKeys ==
    {"id", "created_at", "updated_at", "client_id", "registration_id",
     "gst_registration_number", "name", "registered_from", "registered_to",
     "status", "remarks"}

\* models.APIResponse: data and error are left out when empty.
APIResponseKeys(http, data) ==
    {"success", "message"} \cup (IF data # NoData THEN {"data"} ELSE {})
                           \cup (IF http = 500 THEN {"error"} ELSE {})

\* The top-level keys of the body a handler of the /admin group answers
\* with: the GST handlers write a gin.H or the entity itself, the others a
\* models.APIResponse.
AdminBodyKeys(op, http, data) ==
    CASE op = "CreateGSTRegistration" ->
            IF http = 201 THEN GSTRegistrationKeys ELSE {"error", "details"}
      [] op = "GetGSTRegistration" ->
            IF http = 200 THEN GSTRegistrationKeys ELSE {"error"}
      [] op = "GetGSTRegistrations" ->
            IF http = 200 THEN {"data", "total", "page", "limit", "total_pages"}
            ELSE {"error", "details"}
      [] op \in {"UpdateGSTRegistration", "DeleteGSTRegistration"} ->
            IF http = 200 THEN {"message"} ELSE {"error"}
      [] OTHER -> APIResponseKeys(http, data)

\* What the routes of the /admin group have in common: AuthRequired runs
\* first and the handler only when it calls c.Next().
AdminResponse(op, a, authHeader, http, data) ==
    [Response(op, http, -1, 0, <<>>, data, [auth |-> authHeader])
        EXCEPT !.role = a.role, !.handler = TRUE,
               !.keys = AdminBodyKeys(op, http, data)]

\* GSTController.CreateGSTRegistration: POST /admin/gst-registrations.
\* registration_id carries a unique index, which counts deleted rows too.
CreateGSTRegistration(authHeader, clientID, regID, p) ==
    LET a == AuthRequired(AppEnv, authHeader)
        row == GSTRow(clientID, regID, p)
        clash == \E i \in DOMAIN gst : gst[i].regID = regID
    IN
    /\ Accept
    /\ IF a.abort THEN
           /\ last' = Unauthorized("CreateGSTRegistration", a, authHeader)
           /\ gst' = gst
       ELSE IF clash THEN
           /\ last' = AdminResponse("CreateGSTRegistration", a, authHeader, 500, NoData)
           /\ gst' = gst
       ELSE
           /\ last' = AdminResponse("CreateGSTRegistration", a, authHeader, 201, row)
           /\ gst' = Append(gst, row)
    /\ UNCHANGED <<envVar, now, schema, gstDeleted, cit, citCalls, rental,
                   stmt, bal, spAuth, spToken, spCalls, users, regCalls>>

\* GSTService.GetGSTRegistrationByID behind GET /admin/gst-registrations/:id
GetGSTRegistrationByID(rows, id) ==
    IF id \in GSTVisible(rows) THEN [found |-> TRUE, row |-> rows[id]]
    ELSE [found |-> FALSE, row |-> NoData]

GetGSTRegistration(authHeader, id) ==
    LET a == AuthRequired(AppEnv, authHeader)
        g == GetGSTRegistrationByID(gst, id)
    IN
    /\ Accept
    /\ last' =
         IF a.abort THEN Unauthorized("GetGSTRegistration", a, authHeader)
         ELSE [AdminResponse("GetGSTRegistration", a, authHeader,
                             IF g.found THEN 200 ELSE 404, g.row)
                  EXCEPT !.req = [auth |-> authHeader, id |-> id]]
    /\ UNCHANGED <<envVar, now, schema, gst, gstDeleted, cit, citCalls,
                   rental, stmt, bal, spAuth, spToken, spCalls, users,
                   regCalls>>

\* GetGSTRegistrations: page and limit as the controller clamps them.
ClampPage(page) == IF page < 1 THEN 1 ELSE page

DefaultLimit == 10

MaxLimit == 100

ClampLimit(limit) == IF limit < 1 \/ limit > MaxLimit THEN DefaultLimit ELSE limit

\* GSTService.GetAllGSTRegistrations: offset := (page - 1) * limit
GSTOffset(page, limit) == (page - 1) * limit

\* The number of rows OFFSET o LIMIT l returns out of n.
PageSize(n, o, l) ==
    IF o >= n THEN 0 ELSE IF n - o < l THEN n - o ELSE l

\* GET /admin/gst-registrations.  The query has no ORDER BY, so the page is
\* any set of visible rows of the right size.
GetGSTRegistrations(authHeader, page, limit) ==
    LET a == AuthRequired(AppEnv, authHeader)
        p == ClampPage(page)
        l == ClampLimit(limit)
        visible == GSTVisible(gst)
        total == Cardinality(visible)
        size == PageSize(total, GSTOffset(p, l), l)
    IN
    /\ Accept
    /\ IF a.abort THEN last' = Unauthorized("GetGSTRegistrations", a, authHeader)
       ELSE \E ids \in SUBSET visible :
              /\ Cardinality(ids) = size
              /\ last' =
                   [AdminResponse("GetGSTRegistrations", a, authHeader, 200,
                                  [ids |-> ids, total |-> total, page |-> p, limit |-> l])
                      EXCEPT !.req = [auth |-> authHeader, page |-> page, limit |-> limit]]
    /\ UNCHANGED <<envVar, now, schema, gst, gstDeleted, cit, citCalls,
                   rental, stmt, bal, spAuth, spToken, spCalls, users,
                   regCalls>>

\* The columns an update payload of the model may name, and their values.
GSTUpdates ==
    {[column |-> "name", value |-> "Renamed"],
     [column |-> "client_id", value |-> "C2"],
     [column |-> "registration_id", value |-> "R2"],
     [column |-> "deleted_at", value |-> "null"],
     [column |-> "deleted_at", value |-> "2024-01-01T00:00:00Z"]}

GSTApply(row, u) ==
    CASE u.column = "name" -> [row EXCEPT !.name = u.value]
      [] u.column = "client_id" -> [row EXCEPT !.clientID = u.value]
      [] u.column = "registration_id" -> [row EXCEPT !.regID = u.value]
      [] u.column = "deleted_at" -> [row EXCEPT !.deleted = (u.value # "null")]

\* The update without the soft-delete scope (gorm's Unscoped).
GSTUpdateTargetsAll(rows, id) == {id} \cap DOMAIN rows

\* GSTService.UpdateGSTRegistration:
\* UPDATE ... SET ... WHERE id = ? AND deleted_at IS NULL
GSTUpdateTargets(rows, id) == {id} \cap GSTVisible(rows)

UpdateGSTRegistration(authHeader, id, u) ==
    LET a == AuthRequired(AppEnv, authHeader)
        hit == GSTUpdateTargets(gst, id) # {}
        clash == /\ hit
                 /\ u.column = "registration_id"
                 /\ \E i \in DOMAIN gst : i # id /\ gst[i].regID = u.value
    IN
    /\ Accept
    /\ IF a.abort THEN
           /\ last' = Unauthorized("UpdateGSTRegistration", a, authHeader)
           /\ gst' = gst
       ELSE IF clash THEN
           /\ last' = AdminResponse("UpdateGSTRegistration", a, authHeader, 500, NoData)
           /\ gst' = gst
       ELSE
           /\ last' = AdminResponse("UpdateGSTRegistration", a, authHeader, 200, NoData)
           /\ gst' = IF hit THEN [gst EXCEPT ![id] = GSTApply(gst[id], u)] ELSE gst
    /\ UNCHANGED <<envVar, now, schema, gstDeleted, cit, citCalls, rental,
                   stmt, bal, spAuth, spToken, spCalls, users, regCalls>>

\* GSTService.DeleteGSTRegistration: db.Delete(&GSTRegistration{}, id) is
\* UPDATE ... SET deleted_at = now WHERE id = ? AND deleted_at IS NULL.
GSTSoftDelete(rows, id) ==
    IF id \in GSTVisible(rows) THEN [rows EXCEPT ![id].deleted = TRUE] ELSE rows

DeleteGSTRegistration(authHeader, id) ==
    LET a == AuthRequired(AppEnv, authHeader) IN
    /\ Accept
    /\ IF a.abort THEN
           /\ last' = Unauthorized("DeleteGSTRegistration", a, authHeader)
           /\ UNCHANGED <<gst, gstDeleted, users, regCalls>>
       ELSE
           /\ last' = [AdminResponse("DeleteGSTRegistration", a, authHeader, 200, NoData)
                          EXCEPT !.req = [auth |-> authHeader, id |-> id]]
           /\ gst' = GSTSoftDelete(gst, id)
           /\ gstDeleted' = IF id \in DOMAIN gst THEN gstDeleted \cup {id} ELSE gstDeleted
    /\ UNCHANGED <<envVar, now, schema, cit, citCalls, rental, stmt, bal,
                   spAuth, spToken, spCalls, users, regCalls>>

(***************************************************************************)
(* The wall clock.  time.Now() is read with one-second resolution by the   *)
(* two generators below; any number of requests fit in one second.         *)
(***************************************************************************)
Tick ==
    /\ now < MaxClock
    /\ now' = now + 1
    /\ UNCHANGED <<envVar, reqs, schema, gst, gstDeleted, cit, citCalls,
                   rental, stmt, bal, spAuth, spToken, spCalls, users,
                   regCalls, last>>

\* time.Now() at clock value t: the clock of the model starts one second
\* before an hour changes.
WallClock(t) ==
    LET s == 3599 + t
    IN [year |-> 2026, month |-> 11, day |-> 5, hour |-> s \div 3600,
        minute |-> (s % 3600) \div 60, second |-> s % 60]

\* A number written without leading zeros.
RECURSIVE Unpadded(_, _)
Unpadded(n, width) ==
    IF n < 10 THEN <<n>> ELSE Unpadded(n \div 10, width) \o <<n % 10>>

\* A number written in `width` decimal digits, zero-padded, as the layout
\* elements 2006, 01, 02, 15, 04 and 05 write it.
RECURSIVE ZeroPad(_, _)
ZeroPad(n, width) ==
    IF width = 0 THEN <<>> ELSE ZeroPad(n \div 10, width - 1) \o <<n % 10>>

\* time.Now().Format("20060102150405"): the digits of the timestamp.
FormatTimestamp(t) ==
    LET w == WallClock(t)
    IN ZeroPad(w.year, 4) \o ZeroPad(w.month, 2) \o ZeroPad(w.day, 2)
       \o ZeroPad(w.hour, 2) \o ZeroPad(w.minute, 2) \o ZeroPad(w.second, 2)

(***************************************************************************)
(* CIT: CITController.ConvertFormCS and CITService.ConvertFormCS.          *)
(* The service issues two statements, a SELECT by request_id and an        *)
(* INSERT, outside any transaction: CITBegin runs the handler up to and    *)
(* including the SELECT, CITInsert runs the rest.                          *)
(***************************************************************************)
\* CITService.generateConversionID
generateConversionID(t) == [prefix |-> "CIT", stamp |-> FormatTimestamp(t)]

\* The bodies tried: one that is not JSON, one whose id fails validation,
\* two valid request ids.
CITBodies ==
    {[json |-> FALSE, id |-> 0]} \cup {[json |-> TRUE, id |-> i] : i \in 0..2}

\* The record ConvertFormCS builds.
CITRecord(id, t) ==
    [conversionID |-> generateConversionID(t), requestID |-> id,
     status |-> "completed", conversionDate |-> t,
     processedBy |-> "IRAS_CIT_SYSTEM", conversionResult |-> id, clientID |-> id]

\* models.CITConversionData, copied from a record.
CITData(row) ==
    [conversionID |-> row.conversionID, status |-> row.status,
     conversionDate |-> row.conversionDate, processedBy |-> row.processedBy,
     conversionResult |-> row.conversionResult]

\* A lookup that never finds a record.
CITExistingNone(rows, id) == {}

\* db.Where("request_id = ?", id).First(&existingRecord): the matching rows,
\* of which First takes the one with the smallest primary key.
CITExisting(rows, id) == {i \in DOMAIN rows : rows[i].requestID = id}

\* db.Create(conversionRecord): refused only by a unique index on
\* conversion_id, when the migrated table carries one.
CITCreateOK(rows, row) ==
    schema.citConversionIDUnique =>
        \A i \in DOMAIN rows : rows[i].conversionID # row.conversionID

\* A call as the model follows it: where it stands, what it was asked and
\* what it answered; and, as history, whether its SELECT found no record and
\* which earlier calls had answered when it began.
CITCall(req, pc, rc, data, missed, prior) ==
    [id |-> req.body.id, headers |-> req.headers, pc |-> pc, rc |-> rc,
     data |-> data, missed |-> missed, prior |-> prior]

CITDone(calls) == {c \in DOMAIN calls : calls[c].pc = "done"}

\* POST /iras/prod/ct/convertformcs, the handler up to the SELECT.
CITBegin(h, body) ==
    LET in == [headers |-> h, body |-> body]
        hits == CITExisting(cit, body.id)
        prior == CITDone(citCalls)
    IN
    /\ Accept
    /\ IF ~HeaderGate(AppEnv, h) THEN
           /\ last' = Response("ConvertFormCS", 401, 40, 40003, <<"headers">>, NoData, in)
           /\ citCalls' = citCalls
       ELSE IF ~body.json THEN
           /\ last' = Response("ConvertFormCS", 400, 40, 40004, <<"body">>, NoData, in)
           /\ citCalls' = citCalls
       ELSE IF body.id <= 0 THEN
           /\ last' = [Response("ConvertFormCS", 200, 40, 40001, <<"id">>, NoData, in)
                          EXCEPT !.parsed = TRUE, !.service = TRUE]
           /\ citCalls' = Append(citCalls,
                                 CITCall(in, "done", 40, NoData, FALSE, prior))
       ELSE IF hits # {} THEN
           LET data == CITData(cit[Min(hits)]) IN
           /\ last' = [Response("ConvertFormCS", 200, 10, 0, <<>>, data, in)
                          EXCEPT !.parsed = TRUE, !.service = TRUE]
           /\ citCalls' = Append(citCalls,
                                 CITCall(in, "done", 10, data, FALSE, prior))
       ELSE
           /\ last' = last
           /\ citCalls' = Append(citCalls,
                                 CITCall(in, "insert", -1, NoData, TRUE, prior))
    /\ UNCHANGED <<envVar, now, schema, gst, gstDeleted, cit, rental, stmt,
                   bal, spAuth, spToken, spCalls, users, regCalls>>

\* The answer of a handler that drops the error of db.Create.
CITCreateResultUnchecked(created, row) ==
    [http |-> 200, rc |-> 10, mc |-> 0, data |-> CITData(row)]

\* What the service and the controller answer after db.Create: 10 with the
\* new record's data, or 50 (HTTP 500) when Create returned an error.
CITCreateResult(created, row) ==
    IF created
    THEN [http |-> 200, rc |-> 10, mc |-> 0, data |-> CITData(row)]
    ELSE [http |-> 500, rc |-> 50, mc |-> 50001, data |-> NoData]

\* The rest of the handler for a call that found no record: generate the
\* conversion id from the clock, INSERT, answer.  Nothing stands between
\* the reading of the clock and the INSERT.
CITInsert(c) ==
    LET call == citCalls[c]
        row == CITRecord(call.id, now)
        created == CITCreateOK(cit, row)
        r == CITCreateResult(created, row)
        in == [headers |-> call.headers, body |-> [json |-> TRUE, id |-> call.id]]
    IN
    /\ c \in DOMAIN citCalls
    /\ call.pc = "insert"
    /\ cit' = IF created THEN Append(cit, row) ELSE cit
    /\ citCalls' = [citCalls EXCEPT ![c].pc = "done", ![c].rc = r.rc,
                                    ![c].data = r.data]
    /\ last' = [Response("ConvertFormCS", r.http, r.rc, r.mc, <<>>, r.data, in)
                   EXCEPT !.parsed = TRUE, !.service = TRUE]
    /\ UNCHANGED <<envVar, now, reqs, schema, gst, gstDeleted, rental, stmt,
                   bal, spAuth, spToken, spCalls, users, regCalls>>

(***************************************************************************)
(* Rental: RentalController.SubmitRental and RentalService.SubmitRental.   *)
(* The service issues one INSERT.                                          *)
(***************************************************************************)
\* RentalService.generateRefNo
generateRefNo(t) == [prefix |-> "RNT", stamp |-> FormatTimestamp(t)]

\* PropertyDetailSubmission: recordID is a float64, held here in tenths
\* (10 is 1.0, 25 is 2.5).
RentalProperty(ref, recordID) == [propertyTaxRef |-> ref, recordID |-> recordID]

\* fmt.Sprintf("%.0f", x) of a non-negative x given in tenths: the decimal
\* text of x rounded to a whole number, a half going to the even neighbour.
FormatRecordID(x) ==
    LET whole == x \div 10
        frac == x % 10
    IN IF frac > 5 \/ (frac = 5 /\ whole % 2 = 1) THEN whole + 1 ELSE whole

RentalOrg(year, email, name, dev) ==
    [assmtYear |-> year, authorisedPersonEmail |-> email,
     authorisedPersonName |-> name, developmentName |-> dev]

\* The bodies tried: a valid submission, one body for each check of the
\* service (one and two line items with a blank propertyTaxRef among valid
\* ones), and one that is not JSON.
RentalBodies ==
    LET ok == RentalOrg(2024, "C1", "C1", "C1")
        p1 == RentalProperty("R1", 10)
        p2 == RentalProperty(" ", 20)
        p3 == RentalProperty("", 25)
        body(org, dtl) == [json |-> TRUE, org |-> org, propertyDtl |-> dtl]
    IN { [json |-> FALSE, org |-> ok, propertyDtl |-> <<>>],
         body(ok, <<p1>>),
         body(ok, <<>>),
         body(ok, <<p1, p2>>),
         body(ok, <<p2, p1, p3>>),
         body(RentalOrg(0, "C1", "C1", "C1"), <<p1>>),
         body(RentalOrg(2024, " ", "C1", "C1"), <<p1>>),
         body(RentalOrg(2024, "C1", "", "C1"), <<p1>>),
         body(RentalOrg(2024, "C1", "C1", " "), <<>>) }

\* The per-item loop: one error for each item whose propertyTaxRef is blank.
RECURSIVE RentalFieldErrors(_)
RentalFieldErrors(dtl) ==
    IF dtl = <<>> THEN <<>>
    ELSE (IF TrimSpace(Head(dtl).propertyTaxRef) = ""
          THEN <<[field |-> "propertyTaxRef", recordID |-> FormatRecordID(Head(dtl).recordID)]>>
          ELSE <<>>) \o RentalFieldErrors(Tail(dtl))

\* The checks without the one on an empty propertyDtl.
RentalValidateNoEmptyCheck(body) ==
    LET org == body.org
        err(mc, fields) == [ok |-> FALSE, mc |-> mc, fields |-> fields]
    IN IF org.assmtYear <= 0 THEN err(40001, <<"assmtYear">>)
       ELSE IF TrimSpace(org.authorisedPersonEmail) = ""
            THEN err(40002, <<"authorisedPersonEmail">>)
       ELSE IF TrimSpace(org.authorisedPersonName) = ""
            THEN err(40003, <<"authorisedPersonName">>)
       ELSE IF TrimSpace(org.developmentName) = ""
            THEN err(40004, <<"developmentName">>)
       ELSE IF Len(RentalFieldErrors(body.propertyDtl)) > 0
            THEN err(40006, RentalFieldErrors(body.propertyDtl))
       ELSE [ok |-> TRUE, mc |-> 0, fields |-> <<>>]

\* The checks of RentalService.SubmitRental before anything is stored: the
\* first failing one answers.
RentalValidate(body) ==
    LET org == body.org
        err(mc, fields) == [ok |-> FALSE, mc |-> mc, fields |-> fields]
    IN IF org.assmtYear <= 0 THEN err(40001, <<"assmtYear">>)
       ELSE IF TrimSpace(org.authorisedPersonEmail) = ""
            THEN err(40002, <<"authorisedPersonEmail">>)
       ELSE IF TrimSpace(org.authorisedPersonName) = ""
            THEN err(40003, <<"authorisedPersonName">>)
       ELSE IF TrimSpace(org.developmentName) = ""
            THEN err(40004, <<"developmentName">>)
       ELSE IF Len(body.propertyDtl) = 0 THEN err(40005, <<"propertyDtl">>)
       ELSE IF Len(RentalFieldErrors(body.propertyDtl)) > 0
            THEN err(40006, RentalFieldErrors(body.propertyDtl))
       ELSE [ok |-> TRUE, mc |-> 0, fields |-> <<>>]

\* The record SubmitRental stores.
RentalRecord(body, t) ==
    [refNo |-> generateRefNo(t), assmtYear |-> body.org.assmtYear,
     authorisedPersonEmail |-> body.org.authorisedPersonEmail,
     authorisedPersonName |-> body.org.authorisedPersonName,
     developmentName |-> body.org.developmentName,
     totalProperties |-> Len(body.propertyDtl), status |-> "submitted"]

\* db.Create(record) on rental_submission_records: ref_no carries a plain
\* index, so no row is refused.
RentalCreateOK(rows, row) == TRUE

\* POST /iras/sb/rental/Submission
SubmitRental(h, body) ==
    LET in == [headers |-> h, body |-> body]
        v == RentalValidate(body)
        row == RentalRecord(body, now)
    IN
    /\ Accept
    /\ IF ~HeaderGate(AppEnv, h) THEN
           /\ last' = Response("SubmitRental", 401, 40, 40003, <<"headers">>, NoData, in)
           /\ rental' = rental
       ELSE IF ~body.json THEN
           /\ last' = Response("SubmitRental", 400, 40, 40004, <<"body">>, NoData, in)
           /\ rental' = rental
       ELSE IF ~v.ok THEN
           /\ last' = [Response("SubmitRental", 200, 40, v.mc, v.fields, NoData, in)
                          EXCEPT !.parsed = TRUE, !.service = TRUE]
           /\ rental' = rental
       ELSE IF ~RentalCreateOK(rental, row) THEN
           /\ last' = [Response("SubmitRental", 500, 50, 50001, <<>>, NoData, in)
                          EXCEPT !.parsed = TRUE, !.service = TRUE]
           /\ rental' = rental
       ELSE
           /\ last' = [Response("SubmitRental", 200, 0, 0, <<>>,
                                [refNo |-> row.refNo], in)
                          EXCEPT !.parsed = TRUE, !.service = TRUE]
           /\ rental' = Append(rental, row)
    /\ UNCHANGED <<envVar, now, schema, gst, gstDeleted, cit, citCalls,
                   spAuth, spToken, spCalls, stmt, bal, users, regCalls>>

(***************************************************************************)
(* SingPass: SingPassController and SingPassService.                       *)
(* SingPassServiceAuthToken issues three statements, a SELECT of the auth  *)
(* record, an INSERT of the token record and an UPDATE of the auth         *)
(* record's status, outside any transaction: one action per statement.     *)
(***************************************************************************)
\* uuid.New().String(): a value no earlier call has drawn.
NewUUID(n) == <<"U1", "U2", "U3", "U4", "U5">>[n]

\* SingPassService.isValidCallbackURL, on the URLs the model draws.
RegisteredURL == "http://www.iras.gov.sg/callback"

isValidCallbackURL(url) == url \in {RegisteredURL, "https://www.iras.gov.sg/callback"}

\* The parameters SingPassServiceAuth is tried with.
SingPassAuthRequests ==
    {[state |-> st, scope |-> "", callbackURL |-> cb] :
        st \in {"", "S1"}, cb \in {"", RegisteredURL, "http://evil/cb"}}

\* The record SingPassServiceAuth stores, defaults applied.
SingPassAuthRecord(req, uuid) ==
    [state |-> IF req.state = "" THEN uuid ELSE req.state,
     scope |-> IF req.scope = "" THEN "GSTReturnsSub+GSTTransListSub" ELSE req.scope,
     callbackURL |-> IF req.callbackURL = "" THEN RegisteredURL ELSE req.callbackURL,
     clientID |-> "singpass-client",
     status |-> "pending"]

\* db.Create(authRecord): refused only by a unique index on state, when the
\* migrated table carries one.
SingPassAuthCreateOK(rows, row) ==
    schema.spAuthStateUnique => \A i \in DOMAIN rows : rows[i].state # row.state

\* POST /iras/prod/Authentication/SingPassServiceAuth.  Binding the query
\* parameters cannot fail: every field is a string.
SingPassServiceAuth(h, req) ==
    LET in == [headers |-> h, body |-> req]
        row == SingPassAuthRecord(req, NewUUID(Len(spAuth) + 1))
        respond(http, rc, mc, fields, data) ==
            [Response("SingPassServiceAuth", http, rc, mc, fields, data, in)
                EXCEPT !.parsed = TRUE, !.service = TRUE]
    IN
    /\ Accept
    /\ IF ~HeaderGate(AppEnv, h) THEN
           /\ last' = Response("SingPassServiceAuth", 401, 40, 40003, <<"headers">>,
                               NoData, in)
           /\ spAuth' = spAuth
       ELSE IF req.callbackURL # "" /\ ~isValidCallbackURL(req.callbackURL) THEN
           /\ last' = respond(200, 40, 850301, <<"callback_url">>, NoData)
           /\ spAuth' = spAuth
       ELSE IF ~SingPassAuthCreateOK(spAuth, row) THEN
           /\ last' = respond(500, 50, 50001, <<>>, NoData)
           /\ spAuth' = spAuth
       ELSE
           /\ last' = respond(200, 10, 0, <<>>, [state |-> row.state])
           /\ spAuth' = Append(spAuth, row)
    /\ UNCHANGED <<envVar, now, schema, gst, gstDeleted, cit, citCalls,
                   rental, stmt, bal, spToken, spCalls, users, regCalls>>

\* The bodies SingPassServiceAuthToken is tried with: complete ones for the
\* states an auth call can have stored, one body for each check of the
\* service, and one that is not JSON.
SingPassTokenBodies ==
    LET body(code, st, cb, scope) ==
            [json |-> TRUE, code |-> code, state |-> st, callbackURL |-> cb,
             scope |-> scope]
    IN { body("C1", st, RegisteredURL, "GST") : st \in {"S1", "S2", "U1"} }
       \cup { [json |-> FALSE, code |-> "", state |-> "", callbackURL |-> "",
               scope |-> ""],
              body(" ", "S1", RegisteredURL, "GST"),
              body("C1", "", "", ""),
              body("C1", "S1", " ", ""),
              body("C1", "S1", RegisteredURL, ""),
              body("C1", "S1", "http://evil/cb", "GST"),
              body("", "", "", ""),
              body("C1", "S1", "http://evil/cb", ""),
              body("C1", "U1", "http://evil/cb", "GST") }

\* The checks with the registration of the callback URL looked at before
\* the scope.
SingPassTokenValidateURLFirst(body) ==
    LET err(mc, field) == [ok |-> FALSE, mc |-> mc, fields |-> <<field>>]
    IN IF TrimSpace(body.code) = "" THEN err(40001, "code")
       ELSE IF TrimSpace(body.state) = "" THEN err(40002, "state")
       ELSE IF TrimSpace(body.callbackURL) = "" THEN err(40003, "callback_url")
       ELSE IF ~isValidCallbackURL(body.callbackURL) THEN err(850301, "callback_url")
       ELSE IF TrimSpace(body.scope) = "" THEN err(40004, "scope")
       ELSE [ok |-> TRUE, mc |-> 0, fields |-> <<>>]

\* The checks of SingPassServiceAuthToken that need no record: the first
\* failing one answers.
SingPassTokenValidate(body) ==
    LET err(mc, field) == [ok |-> FALSE, mc |-> mc, fields |-> <<field>>]
    IN IF TrimSpace(body.code) = "" THEN err(40001, "code")
       ELSE IF TrimSpace(body.state) = "" THEN err(40002, "state")
       ELSE IF TrimSpace(body.callbackURL) = "" THEN err(40003, "callback_url")
       ELSE IF TrimSpace(body.scope) = "" THEN err(40004, "scope")
       ELSE IF ~isValidCallbackURL(body.callbackURL) THEN err(850301, "callback_url")
       ELSE [ok |-> TRUE, mc |-> 0, fields |-> <<>>]

\* db.Where("state = ?", req.State).First(&authRecord)
SingPassAuthByState(rows, st) == {i \in DOMAIN rows : rows[i].state = st}

\* generateAccessToken / generateRefreshToken: prefix, second, random part.
generateAccessToken(t, n) == [prefix |-> "SP_AT", stamp |-> FormatTimestamp(t), nonce |-> n]

generateRefreshToken(t, n) == [prefix |-> "SP_RT", stamp |-> FormatTimestamp(t), nonce |-> n]

\* The record SingPassServiceAuthToken stores.
SingPassTokenRecord(body, t, n) ==
    [code |-> body.code, state |-> body.state,
     accessToken |-> generateAccessToken(t, n), tokenType |-> "Bearer",
     expiresIn |-> 3600, refreshToken |-> generateRefreshToken(t, n),
     scope |-> body.scope, callbackURL |-> body.callbackURL,
     clientID |-> "singpass-client", status |-> "active"]

\* models.SingPassServiceAuthTokenData
SingPassTokenData(row) ==
    [accessToken |-> row.accessToken, tokenType |-> row.tokenType,
     expiresIn |-> row.expiresIn, refreshToken |-> row.refreshToken,
     scope |-> row.scope]

\* The handler up to the SELECT of the auth record.
AuthTokenSelect(h, body) ==
    LET in == [headers |-> h, body |-> body]
        v == SingPassTokenValidate(body)
        hits == SingPassAuthByState(spAuth, body.state)
        respond(http, rc, mc, fields) ==
            [Response("SingPassServiceAuthToken", http, rc, mc, fields, NoData, in)
                EXCEPT !.parsed = TRUE, !.service = TRUE]
    IN
    /\ Accept
    /\ IF ~HeaderGate(AppEnv, h) THEN
           /\ last' = Response("SingPassServiceAuthToken", 401, 40, 40003,
                               <<"headers">>, NoData, in)
           /\ spCalls' = spCalls
       ELSE IF ~body.json THEN
           /\ last' = Response("SingPassServiceAuthToken", 400, 40, 40004,
                               <<"body">>, NoData, in)
           /\ spCalls' = spCalls
       ELSE IF ~v.ok THEN
           /\ last' = respond(200, 40, v.mc, v.fields)
           /\ spCalls' = spCalls
       ELSE IF hits = {} THEN
           /\ last' = respond(200, 40, 40005, <<"state">>)
           /\ spCalls' = spCalls
       ELSE
           /\ last' = last
           /\ spCalls' = Append(spCalls, [pc |-> "insert", body |-> body,
                                          headers |-> h, auth |-> Min(hits),
                                          token |-> 0])
    /\ UNCHANGED <<envVar, now, schema, gst, gstDeleted, cit, citCalls,
                   rental, stmt, bal, spAuth, spToken, users, regCalls>>

\* Whether the INSERT of a token record passes the indexes of
\* sing_pass_token_records.
SingPassTokenCreateOK(sch, rows, row) ==
    sch.spTokenStateUnique => \A i \in DOMAIN rows : rows[i].state # row.state

\* db.Create(tokenRecord): the record is stored, or the error is answered
\* with returnCode 50 (HTTP 500 from the controller).
AuthTokenInsert(c) ==
    /\ c \in DOMAIN spCalls
    /\ spCalls[c].pc = "insert"
    /\ LET row == SingPassTokenRecord(spCalls[c].body, now, Len(spToken) + 1) IN
       IF SingPassTokenCreateOK(schema, spToken, row) THEN
           /\ spToken' = Append(spToken, row)
           /\ spCalls' = [spCalls EXCEPT ![c].pc = "update",
                                         ![c].token = Len(spToken) + 1]
           /\ last' = last
       ELSE
           /\ spToken' = spToken
           /\ spCalls' = [spCalls EXCEPT ![c].pc = "done"]
           /\ last' = [Response("SingPassServiceAuthToken", 500, 50, 50001, <<>>,
                                NoData,
                                [headers |-> spCalls[c].headers,
                                 body |-> spCalls[c].body])
                          EXCEPT !.parsed = TRUE, !.service = TRUE]
    /\ UNCHANGED <<envVar, now, reqs, schema, gst, gstDeleted, cit, citCalls,
                   rental, stmt, bal, spAuth, users, regCalls>>

\* db.Model(&authRecord).Update("status", "completed"): the row that the
\* SELECT loaded, by its primary key.
SingPassComplete(rows, id) == [rows EXCEPT ![id].status = "completed"]

\* The UPDATE and the answer.
AuthTokenUpdate(c) ==
    /\ c \in DOMAIN spCalls
    /\ spCalls[c].pc = "update"
    /\ spAuth' = SingPassComplete(spAuth, spCalls[c].auth)
    /\ spCalls' = [spCalls EXCEPT ![c].pc = "done"]
    /\ last' = [Response("SingPassServiceAuthToken", 200, 10, 0, <<>>,
                         SingPassTokenData(spToken[spCalls[c].token]),
                         [headers |-> spCalls[c].headers, body |-> spCalls[c].body])
                   EXCEPT !.parsed = TRUE, !.service = TRUE]
    /\ UNCHANGED <<envVar, now, reqs, schema, gst, gstDeleted, cit, citCalls,
                   rental, stmt, bal, spToken, users, regCalls>>

(***************************************************************************)
(* AIS: AISController.AISOrgSearch and AISService.SearchOrganization.      *)
(* The handler reads no X-IBM-Client-* header.                             *)
(***************************************************************************)
\* The bodies tried (models.AISorgSearchRequest).
AISBodies ==
    {[json |-> FALSE, clientID |-> "", organizationID |-> "", basisYear |-> 0]}
    \cup {[json |-> TRUE, clientID |-> c, organizationID |-> o, basisYear |-> y] :
            c \in {"", "C1"}, o \in {" ", "4396029847797760", "9999999999999999"},
            y \in {0, 1899, 1900, 2100, 2101}}

\* validator.Struct on the `validate:"required"` tags: no zero value.
AISRequired(body) ==
    body.clientID # "" /\ body.organizationID # "" /\ body.basisYear # 0

\* The lookup taking every listed organization as existing.
checkOrganizationListed(organizationID) ==
    IF organizationID \in {"4396029847797760", "1234567890123456",
                           "9999999999999999"}
    THEN "Y" ELSE "N"

\* AISService.checkOrganizationInAIS: the test organizations listed as
\* existing ("9999999999999999" is listed as not existing).
checkOrganizationInAIS(organizationID) ==
    IF organizationID \in {"4396029847797760", "1234567890123456"} THEN "Y" ELSE "N"

\* AISService.SearchOrganization
SearchOrganization(req) ==
    LET err(mc, field) ==
            [rc |-> 40, mc |-> mc, fields |-> <<field>>, organizationInAIS |-> ""]
    IN IF TrimSpace(req.clientID) = "" THEN err("40001", "clientID")
       ELSE IF TrimSpace(req.organizationID) = "" THEN err("40002", "organizationID")
       ELSE IF req.basisYear < 1900 \/ req.basisYear > 2100
            THEN err("40003", "basisYear")
       ELSE [rc |-> 10, mc |-> "", fields |-> <<>>,
             organizationInAIS |-> checkOrganizationInAIS(req.organizationID)]

\* The requests the service is called with directly.
AISRequests ==
    [clientID : {" ", "C1"},
     organizationID : {" ", "4396029847797760", "1234567890123456",
                       "9999999999999999", "5555"},
     basisYear : {-1, 0, 1899, 1900, 2024, 2100, 2101}]

\* AISService.SearchOrganization called with req.
SearchOrganizationCall(req) ==
    LET r == SearchOrganization(req) IN
    /\ Accept
    /\ last' = [Response("SearchOrganization", 0, r.rc, r.mc, r.fields,
                         [organizationInAIS |-> r.organizationInAIS],
                         [body |-> req])
                   EXCEPT !.service = TRUE]
    /\ UNCHANGED <<envVar, now, schema, gst, gstDeleted, cit, citCalls,
                   rental, stmt, bal, spAuth, spToken, spCalls, users,
                   regCalls>>

\* POST /iras/sb/ESubmission/AISOrgSearch: the answer is the internal
\* envelope (success, message) around the service's response.
AISOrgSearch(h, body) ==
    LET in == [headers |-> h, body |-> body]
        r == SearchOrganization(body)
    IN
    /\ Accept
    /\ last' =
         IF ~body.json THEN
             Response("AISOrgSearch", 400, -1, 0, <<>>,
                      [success |-> FALSE, message |-> "Invalid request format"], in)
         ELSE IF ~AISRequired(body) THEN
             [Response("AISOrgSearch", 400, -1, 0, <<>>,
                       [success |-> FALSE, message |-> "Validation failed"], in)
                 EXCEPT !.parsed = TRUE]
         ELSE
             [Response("AISOrgSearch", 200, r.rc, r.mc, r.fields,
                       [success |-> TRUE,
                        message |-> "Organization search completed successfully",
                        organizationInAIS |-> r.organizationInAIS], in)
                 EXCEPT !.parsed = TRUE, !.service = TRUE]
    /\ UNCHANGED <<envVar, now, schema, gst, gstDeleted, cit, citCalls,
                   rental, stmt, bal, spAuth, spToken, spCalls, users,
                   regCalls>>

(***************************************************************************)
(* Stamp duty: EStampController.CalIndustrialSSD, which computes the       *)
(* duty in the handler itself.                                             *)
(***************************************************************************)
\* A date field of the body: empty, not in YYYY-MM-DD form, or a day.
NoDate == [kind |-> "empty", day |-> 0]

BadDate == [kind |-> "malformed", day |-> 0]

Day(n) == [kind |-> "date", day |-> n]

\* time.Parse("2006-01-02", s)
ParseDate(d) == [ok |-> d.kind = "date", day |-> d.day]

DaysPerYear == 365

\* The whole days in the largest time.Duration (2^63 - 1 nanoseconds), at
\* which Time.Sub saturates.
MaxDurationDays == 106751

\* int(disposalDate.Sub(acquisitionDate).Hours() / 24)
DaysBetween(a, d) == IF d - a > MaxDurationDays THEN MaxDurationDays ELSE d - a

\* The seller stamp duty rate, in percent, by whole years held.
IndustrialSSDRate(years) ==
    IF years < 1 THEN 15 ELSE IF years < 2 THEN 10 ELSE IF years < 3 THEN 5 ELSE 0

\* The bodies tried (models.CalIndustrialSSDRequest).
IndustrialSSDBodies ==
    LET body(c, v, a, d) ==
            [json |-> TRUE, clientID |-> c, value |-> v, acquisitionDate |-> a,
             disposalDate |-> d]
    IN { [json |-> FALSE, clientID |-> "", value |-> 0, acquisitionDate |-> NoDate,
          disposalDate |-> NoDate],
         body("", 1000, Day(0), Day(10)),
         body("C1", 0, Day(0), Day(10)),
         body("C1", 1000, NoDate, Day(10)),
         body("C1", 1000, Day(0), NoDate),
         body("C1", 1000, BadDate, Day(10)),
         body("C1", 1000, Day(0), BadDate),
         body("C1", 1000, Day(10), Day(0)) }
    \cup { body("C1", 1000, Day(0), Day(n)) :
               n \in {0, 364, 365, 729, 730, 1094, 1095, 106751, 106945} }

\* The checks of the handler after the body is parsed: the first failing
\* one answers.
IndustrialSSDValidate(body) ==
    LET a == ParseDate(body.acquisitionDate)
        d == ParseDate(body.disposalDate)
    IN IF body.clientID = "" THEN <<"clientID">>
       ELSE IF body.value <= 0 THEN <<"value">>
       ELSE IF body.acquisitionDate.kind = "empty" THEN <<"acquisitionDate">>
       ELSE IF body.disposalDate.kind = "empty" THEN <<"disposalDate">>
       ELSE IF ~a.ok THEN <<"acquisitionDate">>
       ELSE IF ~d.ok THEN <<"disposalDate">>
       ELSE IF d.day < a.day THEN <<"disposalDate">>
       ELSE <<>>

\* The duty, the holding period in years and the rate.
IndustrialSSDData(body) ==
    LET days == DaysBetween(ParseDate(body.acquisitionDate).day,
                            ParseDate(body.disposalDate).day)
        years == days \div DaysPerYear
        rate == IndustrialSSDRate(years)
    IN [stampDuty |-> (body.value * rate) \div 100, holdingPeriod |-> years,
        dutyRate |-> rate]

\* POST /iras/prod/SD/CalIndustrialSSD
CalIndustrialSSD(h, body) ==
    LET in == [headers |-> h, body |-> body]
        bad == IndustrialSSDValidate(body)
    IN
    /\ Accept
    /\ last' =
         IF ~HeaderGateSD(AppEnv, h) THEN
             Response("CalIndustrialSSD", 400, 400, 400,
                      <<"X-IBM-Client-Id", "X-IBM-Client-Secret">>, NoData, in)
         ELSE IF ~body.json THEN
             Response("CalIndustrialSSD", 400, 400, 400, <<"body">>, NoData, in)
         ELSE IF bad # <<>> THEN
             [Response("CalIndustrialSSD", 400, 400, 400, bad, NoData, in)
                 EXCEPT !.parsed = TRUE]
         ELSE
             [Response("CalIndustrialSSD", 200, 200, 200, <<>>,
                       IndustrialSSDData(body), in)
                 EXCEPT !.parsed = TRUE, !.service = TRUE]
    /\ UNCHANGED <<envVar, now, schema, gst, gstDeleted, cit, citCalls,
                   rental, stmt, bal, spAuth, spToken, spCalls, users,
                   regCalls>>

(***************************************************************************)
(* Property lookups: services.PropertyService, PropertyController.         *)
(* Both record models embed BaseModel, so Delete is a soft delete and      *)
(* every query adds "deleted_at IS NULL".                                  *)
(***************************************************************************)
\* The values of consolidated_data the administration stores: none, a JSON
\* document, a text that is not JSON (the create handler stores what it is
\* given).
ConsolidatedDataValues == {"", "{\"totalAmount\":\"9.00\"}", "oops"}

\* json.Unmarshal([]byte(data), &consolidatedStatement)
Unmarshal(data) ==
    IF data = "{\"totalAmount\":\"9.00\"}"
    THEN [ok |-> TRUE, value |-> [mock |-> FALSE, totalAmount |-> "9.00"]]
    ELSE [ok |-> FALSE, value |-> [mock |-> FALSE, totalAmount |-> ""]]

\* PropertyConsolidatedStatementRecord
StatementRecords ==
    [refNo : {"R1"}, propertyTaxRef : {"P1", "P2"},
     consolidatedData : ConsolidatedDataValues, deleted : {FALSE}]

\* PropertyConsolidatedStatementRequest, and a body that is not JSON.
StatementBodies ==
    [json : {TRUE}, refNo : {"", " ", "R1"}, propertyTaxRef : {"", " ", "P1"}]
    \cup {[json |-> FALSE, refNo |-> "", propertyTaxRef |-> ""]}

\* The rows a query of the model sees.
Visible(rows) == {i \in DOMAIN rows : ~rows[i].deleted}

\* Where("ref_no = ? AND property_tax_ref = ?").First: without the
\* condition on property_tax_ref.
StatementMatchRefNoOnly(rows, req) ==
    {i \in Visible(rows) : rows[i].refNo = req.refNo}

\* Where("ref_no = ? AND property_tax_ref = ?", req.RefNo, req.PropertyTaxRef)
StatementMatch(rows, req) ==
    {i \in Visible(rows) :
        rows[i].refNo = req.refNo /\ rows[i].propertyTaxRef = req.propertyTaxRef}

\* PropertyService.generateMockConsolidatedStatement: the request's two
\* references around a fixed statement dated today.
generateMockConsolidatedStatement(req, t) ==
    [refNo |-> req.refNo, propertyTaxRef |-> req.propertyTaxRef,
     statement |-> [mock |-> TRUE, totalAmount |-> "2,500.00",
                    statementDate |-> <<WallClock(t).year, WallClock(t).month,
                                        WallClock(t).day>>]]

\* PropertyService.RetrieveConsolidatedStatement: the response and whether
\* an error is returned with it.
RetrieveStatementService(rows, req, t) ==
    LET found == StatementMatch(rows, req)
        row == rows[Min(found)]
        res(rc, mc, fields, data, err) ==
            [rc |-> rc, mc |-> mc, fields |-> fields, data |-> data, err |-> err]
    IN IF TrimSpace(req.refNo) = "" THEN res(40, 40001, <<"refNo">>, NoData, FALSE)
       ELSE IF TrimSpace(req.propertyTaxRef) = ""
            THEN res(40, 40002, <<"propertyTaxRef">>, NoData, FALSE)
       ELSE IF found = {}
            THEN res(0, 0, <<>>, generateMockConsolidatedStatement(req, t), FALSE)
       ELSE IF row.consolidatedData # "" /\ ~Unmarshal(row.consolidatedData).ok
            THEN res(50, 50002, <<>>, NoData, TRUE)
       ELSE res(0, 0, <<>>,
                [refNo |-> row.refNo, propertyTaxRef |-> row.propertyTaxRef,
                 statement |-> IF row.consolidatedData = ""
                               THEN [mock |-> FALSE, totalAmount |-> ""]
                               ELSE Unmarshal(row.consolidatedData).value],
                FALSE)

\* PropertyController.RetrieveConsolidatedStatement:
\* POST /iras/sb/PropertyConsolidatedStatement/retrieve
RetrieveConsolidatedStatement(h, body) ==
    /\ Accept
    /\ LET in == [headers |-> h, body |-> body]
           r == RetrieveStatementService(stmt, body, now)
           op == "RetrieveConsolidatedStatement"
       IN last' =
            IF ~HeaderGate(AppEnv, h) THEN
                Response(op, 401, 40, 40003, <<"headers">>, NoData, in)
            ELSE IF ~body.json THEN
                Response(op, 400, 40, 40004, <<"body">>, NoData, in)
            ELSE IF body.refNo = "" THEN
                [Response(op, 400, 40, 40001, <<"refNo">>, NoData, in)
                    EXCEPT !.parsed = TRUE]
            ELSE IF body.propertyTaxRef = "" THEN
                [Response(op, 400, 40, 40002, <<"propertyTaxRef">>, NoData, in)
                    EXCEPT !.parsed = TRUE]
            ELSE IF r.err THEN
                [Response(op, 500, 50, 50001, <<>>, NoData, in)
                    EXCEPT !.parsed = TRUE, !.service = TRUE]
            ELSE
                [Response(op, 200, r.rc, r.mc, r.fields, r.data, in)
                    EXCEPT !.parsed = TRUE, !.service = TRUE]
    /\ UNCHANGED <<envVar, now, schema, gst, gstDeleted, cit, citCalls,
                   rental, stmt, bal, spAuth, spToken, spCalls, users,
                   regCalls>>

\* PropertyController.CreateConsolidatedStatementRecord:
\* POST /admin/property-statements. The bound record is stored as it is.
CreateConsolidatedStatementRecord(authHeader, record) ==
    LET a == AuthRequired(AppEnv, authHeader)
        op == "CreateConsolidatedStatementRecord"
    IN
    /\ Accept
    /\ IF a.abort THEN
           /\ last' = Unauthorized(op, a, authHeader)
           /\ stmt' = stmt
       ELSE
           /\ last' = AdminResponse(op, a, authHeader, 201, record)
           /\ stmt' = Append(stmt, record)
    /\ UNCHANGED <<envVar, now, schema, gst, gstDeleted, cit, citCalls,
                   rental, bal, spAuth, spToken, spCalls, users, regCalls>>

\* db.Delete(&Record{}, id): UPDATE ... SET deleted_at = now WHERE id = ?
\* AND deleted_at IS NULL.
SoftDelete(rows, id) ==
    IF id \in Visible(rows) THEN [rows EXCEPT ![id].deleted = TRUE] ELSE rows

\* PropertyController.DeleteConsolidatedStatementRecord:
\* DELETE /admin/property-statements/:id
DeleteConsolidatedStatementRecord(authHeader, id) ==
    LET a == AuthRequired(AppEnv, authHeader)
        op == "DeleteConsolidatedStatementRecord"
    IN
    /\ Accept
    /\ IF a.abort THEN
           /\ last' = Unauthorized(op, a, authHeader)
           /\ stmt' = stmt
       ELSE
           /\ last' = [AdminResponse(op, a, authHeader, 200, NoData)
                          EXCEPT !.req = [auth |-> authHeader, id |-> id]]
           /\ stmt' = SoftDelete(stmt, id)
    /\ UNCHANGED <<envVar, now, schema, gst, gstDeleted, cit, citCalls,
                   rental, bal, spAuth, spToken, spCalls, users, regCalls>>

\* PropertyTaxBalanceRecord (of its address columns the postal code; the
\* others are compared the same way).
BalanceRecords ==
    [clientID : {"C1"}, propertyTaxReferenceNo : {"T1", "T2"},
     postalCode : {"111"}, propertyDescription : {"D1"},
     outstandingBalance : {100}, paymentByGiro : {"No"}, deleted : {FALSE}]

\* PropertyTaxBalanceSearchRequest, and a body that is not JSON.
BalanceBodies ==
    [json : {TRUE}, clientID : {"", " ", "C1"}, pptyTaxRefNo : {"", "T1"},
     postalCode : {"", "111"}]
    \cup {[json |-> FALSE, clientID |-> "", pptyTaxRefNo |-> "", postalCode |-> ""]}

\* The query SearchPropertyTaxBalance builds: client_id, and each criterion
\* the request fills.
BalanceMatch(rows, req) ==
    {i \in Visible(rows) :
        /\ rows[i].clientID = req.clientID
        /\ req.pptyTaxRefNo # "" => rows[i].propertyTaxReferenceNo = req.pptyTaxRefNo
        /\ req.postalCode # "" => rows[i].postalCode = req.postalCode}

\* time.Now().Format("02-Jan-2006")
DateOfSearch(t) == <<WallClock(t).day, WallClock(t).month, WallClock(t).year>>

\* PropertyService.generateMockPropertyTaxBalance
generateMockPropertyTaxBalance(req, t) ==
    [mock |-> TRUE, dateOfSearch |-> DateOfSearch(t),
     propertyDescription |->
        <<"Test Property">> \o
        (IF req.postalCode # "" THEN <<" (", req.postalCode, ")">> ELSE <<>>),
     propertyTaxReferenceNo |->
        IF req.pptyTaxRefNo = "" THEN "3004250U" ELSE req.pptyTaxRefNo,
     outstandingBalance |-> 1800, paymentByGiro |-> "Yes"]

\* PropertyService.SearchPropertyTaxBalance
BalanceSearchService(rows, req, t) ==
    LET found == BalanceMatch(rows, req)
        row == rows[Min(found)]
        res(rc, mc, fields, data) ==
            [rc |-> rc, mc |-> mc, fields |-> fields, data |-> data, err |-> FALSE]
    IN IF TrimSpace(req.clientID) = "" THEN res(40, 40001, <<"clientID">>, NoData)
       ELSE IF found = {} THEN res(0, 0, <<>>, generateMockPropertyTaxBalance(req, t))
       ELSE res(0, 0, <<>>,
                [mock |-> FALSE, dateOfSearch |-> DateOfSearch(t),
                 propertyDescription |-> <<row.propertyDescription>>,
                 propertyTaxReferenceNo |-> row.propertyTaxReferenceNo,
                 outstandingBalance |-> row.outstandingBalance,
                 paymentByGiro |-> row.paymentByGiro])

\* POST /iras/sb/PTTaxBal/PtyTaxBalSearch. The handler is not among the
\* sources; it is taken to check the headers and bind the body as the other
\* IRAS handlers do, and to send the service's response with HTTP 200.
SearchPropertyTaxBalance(h, body) ==
    /\ Accept
    /\ LET in == [headers |-> h, body |-> body]
           r == BalanceSearchService(bal, body, now)
           op == "SearchPropertyTaxBalance"
       IN last' =
            IF ~HeaderGate(AppEnv, h) THEN
                Response(op, 401, 40, 40003, <<"headers">>, NoData, in)
            ELSE IF ~body.json THEN
                Response(op, 400, 40, 40004, <<"body">>, NoData, in)
            ELSE
                [Response(op, 200, r.rc, r.mc, r.fields, r.data, in)
                    EXCEPT !.parsed = TRUE, !.service = TRUE]
    /\ UNCHANGED <<envVar, now, schema, gst, gstDeleted, cit, citCalls,
                   rental, stmt, bal, spAuth, spToken, spCalls, users,
                   regCalls>>

\* POST /admin/property-tax-balances:
\* PropertyService.CreatePropertyTaxBalanceRecord behind AuthRequired.
CreatePropertyTaxBalanceRecord(authHeader, record) ==
    LET a == AuthRequired(AppEnv, authHeader)
        op == "CreatePropertyTaxBalanceRecord"
    IN
    /\ Accept
    /\ IF a.abort THEN
           /\ last' = Unauthorized(op, a, authHeader)
           /\ bal' = bal
       ELSE
           /\ last' = AdminResponse(op, a, authHeader, 201, record)
           /\ bal' = Append(bal, record)
    /\ UNCHANGED <<envVar, now, schema, gst, gstDeleted, cit, citCalls,
                   rental, stmt, spAuth, spToken, spCalls, users, regCalls>>

\* DELETE /admin/property-tax-balances/:id:
\* PropertyService.DeletePropertyTaxBalanceRecord behind AuthRequired.
DeletePropertyTaxBalanceRecord(authHeader, id) ==
    LET a == AuthRequired(AppEnv, authHeader)
        op == "DeletePropertyTaxBalanceRecord"
    IN
    /\ Accept
    /\ IF a.abort THEN
           /\ last' = Unauthorized(op, a, authHeader)
           /\ bal' = bal
       ELSE
           /\ last' = [AdminResponse(op, a, authHeader, 200, NoData)
                          EXCEPT !.req = [auth |-> authHeader, id |-> id]]
           /\ bal' = SoftDelete(bal, id)
    /\ UNCHANGED <<envVar, now, schema, gst, gstDeleted, cit, citCalls,
                   rental, stmt, spAuth, spToken, spCalls, users, regCalls>>

(***************************************************************************)
(* Pagination: utils.Paginate and the list handlers. A Go int is 64 bits   *)
(* in two's complement; it is held as four 16-bit limbs, the lowest first, *)
(* and the arithmetic wraps as the machine's does.                         *)
(***************************************************************************)
\* A small number as an int.
GoInt(n) == IF n >= 0 THEN <<n, 0, 0, 0>> ELSE <<65536 + n, 65535, 65535, 65535>>

\* math.MaxInt64, which strconv.Atoi returns for "9223372036854775807" (and
\* for any larger number, with an error the handlers drop).
MaxInt64 == <<65535, 65535, 65535, 32767>>

IsNegative(x) == x[4] >= 32768

\* x < 1
LessThanOne(x) == IsNegative(x) \/ x = GoInt(0)

\* x > 100
GreaterThan100(x) ==
    ~IsNegative(x) /\ (x[1] > 100 \/ x[2] # 0 \/ x[3] # 0 \/ x[4] # 0)

\* x - 1
Decrement(x) ==
    IF x[1] > 0 THEN <<x[1] - 1, x[2], x[3], x[4]>>
    ELSE IF x[2] > 0 THEN <<65535, x[2] - 1, x[3], x[4]>>
    ELSE IF x[3] > 0 THEN <<65535, 65535, x[3] - 1, x[4]>>
    ELSE <<65535, 65535, 65535, (x[4] + 65535) % 65536>>

\* x * k for a small k >= 0: the low 64 bits of the product, and the bits
\* above them.
Times(x, k) ==
    LET p1 == x[1] * k
        p2 == x[2] * k + p1 \div 65536
        p3 == x[3] * k + p2 \div 65536
        p4 == x[4] * k + p3 \div 65536
    IN [low |-> <<p1 % 65536, p2 % 65536, p3 % 65536, p4 % 65536>>,
        high |-> p4 \div 65536]

\* utils.Paginate(page, limit): (offset, limit)
Paginate(page, limit) ==
    LET p == IF LessThanOne(page) THEN GoInt(1) ELSE page
        l == IF LessThanOne(limit) \/ GreaterThan100(limit) THEN 10 ELSE limit[1]
    IN [offset |-> Times(Decrement(p), l).low, limit |-> l]

\* The values of the query parameters page and limit after strconv.Atoi.
PageParams == {GoInt(-1), GoInt(0), GoInt(1), GoInt(2), GoInt(3), GoInt(1000), MaxInt64}

LimitParams == {GoInt(-1), GoInt(0), GoInt(1), GoInt(10), GoInt(100), GoInt(101), MaxInt64}

\* utils.Paginate called with page and limit.
PaginateCall(page, limit) ==
    /\ Accept
    /\ last' = Response("Paginate", 0, -1, 0, <<>>, Paginate(page, limit),
                        [page |-> page, limit |-> limit])
    /\ UNCHANGED <<envVar, now, schema, gst, gstDeleted, cit, citCalls,
                   rental, stmt, bal, spAuth, spToken, spCalls, users,
                   regCalls>>

\* RentalController.GetRentalSubmissionRecords: GET /admin/rental-submissions.
\* The handler clamps page and limit itself and hands offset and limit to
\* the service, which counts the rows and reads one page of them.
GetRentalSubmissionRecords(authHeader, page, limit) ==
    LET a == AuthRequired(AppEnv, authHeader)
        op == "GetRentalSubmissionRecords"
        p == IF LessThanOne(page) THEN GoInt(1) ELSE page
        l == IF LessThanOne(limit) \/ GreaterThan100(limit) THEN 10 ELSE limit[1]
        offset == Times(Decrement(p), l).low
        total == Len(rental)
    IN
    /\ Accept
    /\ last' =
         IF a.abort THEN Unauthorized(op, a, authHeader)
         ELSE [AdminResponse(op, a, authHeader, 200,
                             [offset |-> offset, limit |-> l, page |-> p,
                              total |-> total,
                              totalPages |-> (total + l - 1) \div l])
                  EXCEPT !.req = [auth |-> authHeader, page |-> page, limit |-> limit]]
    /\ UNCHANGED <<envVar, now, schema, gst, gstDeleted, cit, citCalls,
                   rental, stmt, bal, spAuth, spToken, spCalls, users,
                   regCalls>>

(***************************************************************************)
(* eStamp: EStampController.StampTenancyAgreement and StampMortgage, which *)
(* compute the duty in the handler. Amounts of money are held in cents, a  *)
(* duty before formatting in thousandths of a cent.                        *)
(***************************************************************************)
\* The access_token header: absent or present.
AccessTokens == {"", "T1"}

\* The three header checks of the eStamp handlers: 0 when they pass, else
\* the message code of the 401 response.
EStampGate(env, h, token) ==
    LET accessToken ==
            IF env = "development" /\ token = ""
            THEN "demo_access_token_123456" ELSE token
    IN IF ~HeaderGate(env, h) THEN 40003
       ELSE IF accessToken = "" THEN 40004
       ELSE 0

\* rand.Intn(1000): the values tried.
RandValues == {0, 999}

\* EStampController.generateDocumentReference: the Unix time and a random
\* number below 1000.
generateDocumentReference(t, r) == [unix |-> t, rand |-> r]

\* EStampController.generateMockPDF: names the document type, the
\* reference and the time of generation.
generateMockPDF(docType, docRefNo, t) ==
    [docType |-> docType, docRefNo |-> docRefNo, generated |-> t]

\* fmt.Sprintf("%.2f", stampDuty) of a duty that is not negative: the cents
\* nearest to it.
FormatAmount(duty) == (duty + 500) \div 1000

\* models.EStampData
EStampData(prefix, docType, duty, t, r) ==
    LET docRefNo == [prefix |-> prefix, ref |-> generateDocumentReference(t, r)]
    IN [docRefNo |-> docRefNo, sdAmount |-> FormatAmount(duty), sdPenalty |-> 0,
        totalAmtPayable |-> FormatAmount(duty), paymentDueDate |-> "2025-08-06",
        pdfBase64 |-> generateMockPDF(docType, docRefNo, t)]

\* models.StampTenancyAgreementRequest: assessmentRental holds the
\* totalGrossRentAmount of each line item. And a body that is not JSON.
TenancyBodies ==
    [json : {TRUE}, assignID : {"", "A1"}, documentDescription : {"D1"},
     assessmentRental : {<<>>, <<10000>>, <<-5000>>, <<100000, 50000>>,
                         <<50000, 100000>>, <<1000000>>}]
    \cup {[json |-> FALSE, assignID |-> "", documentDescription |-> "",
           assessmentRental |-> <<>>]}

\* for _, rental := range req.AssessmentRental { totalRent += ... }
RECURSIVE TotalRent(_)
TotalRent(items) ==
    IF items = <<>> THEN 0 ELSE Head(items) + TotalRent(Tail(items))

\* The duty on the first line item alone.
processStampTenancyFirstItem(req, t, r) ==
    LET totalRent == IF req.assessmentRental = <<>> THEN 0
                     ELSE Head(req.assessmentRental)
        stampDuty == totalRent * 4
    IN EStampData("TA", "Tenancy Agreement",
                  IF stampDuty < 100000 THEN 100000 ELSE stampDuty, t, r)

\* EStampController.processStampTenancyAgreement: 0.4% of the total rent,
\* 1.00 at least.
processStampTenancyAgreement(req, t, r) ==
    LET totalRent == TotalRent(req.assessmentRental)
        stampDuty == totalRent * 4
    IN EStampData("TA", "Tenancy Agreement",
                  IF stampDuty < 100000 THEN 100000 ELSE stampDuty, t, r)

\* POST /iras/sb/eStamp/StampTenancyAgreement
StampTenancyAgreement(h, token, body, r) ==
    LET in == [headers |-> h, token |-> token, body |-> body]
        op == "StampTenancyAgreement"
        gate == EStampGate(AppEnv, h, token)
    IN
    /\ Accept
    /\ last' =
         IF gate # 0 THEN
             Response(op, 401, 40, gate,
                      <<IF gate = 40003 THEN "headers" ELSE "access_token">>,
                      NoData, in)
         ELSE IF ~body.json THEN
             Response(op, 400, 40, 40005, <<"body">>, NoData, in)
         ELSE IF body.assignID = "" \/ body.documentDescription = "" THEN
             [Response(op, 400, 40, 40006, <<"assignId,documentDescription">>,
                       NoData, in)
                 EXCEPT !.parsed = TRUE]
         ELSE
             [Response(op, 200, 10, 0, <<>>,
                       processStampTenancyAgreement(body, now, r), in)
                 EXCEPT !.parsed = TRUE, !.service = TRUE]
    /\ UNCHANGED <<envVar, now, schema, gst, gstDeleted, cit, citCalls,
                   rental, stmt, bal, spAuth, spToken, spCalls, users,
                   regCalls>>

\* models.StampMortgageRequest, and a body that is not JSON.
MortgageBodies ==
    [json : {TRUE}, assignID : {"", "A1"}, documentDescription : {"D1"},
     amountOfLoan : {-100, 0, 10000, 125000, 125100, 133333, 1000000}]
    \cup {[json |-> FALSE, assignID |-> "", documentDescription |-> "",
           amountOfLoan |-> 0]}

\* c.ShouldBindJSON(&req) with the binding:"required" tags of
\* StampMortgageRequest: no zero value.
MortgageBinds(body) ==
    /\ body.json
    /\ body.assignID # ""
    /\ body.documentDescription # ""
    /\ body.amountOfLoan # 0

\* The duty with the minimum of the tenancy agreement.
processStampMortgageMinOne(req, t, r) ==
    LET stampDuty == req.amountOfLoan * 4
    IN EStampData("MG", "Mortgage",
                  IF stampDuty < 100000 THEN 100000 ELSE stampDuty, t, r)

\* EStampController.processStampMortgage: 0.4% of the loan, 5.00 at least.
processStampMortgage(req, t, r) ==
    LET stampDuty == req.amountOfLoan * 4
    IN EStampData("MG", "Mortgage",
                  IF stampDuty < 500000 THEN 500000 ELSE stampDuty, t, r)

\* POST /iras/sb/eStamp/StampMortgage
StampMortgage(h, token, body, r) ==
    LET in == [headers |-> h, token |-> token, body |-> body]
        op == "StampMortgage"
        gate == EStampGate(AppEnv, h, token)
    IN
    /\ Accept
    /\ last' =
         IF gate # 0 THEN
             Response(op, 401, 40, gate,
                      <<IF gate = 40003 THEN "headers" ELSE "access_token">>,
                      NoData, in)
         ELSE IF ~MortgageBinds(body) THEN
             Response(op, 400, 40, 40005, <<"body">>, NoData, in)
         ELSE IF body.assignID = "" \/ body.documentDescription = ""
                 \/ body.amountOfLoan <= 0 THEN
             [Response(op, 400, 40, 40006,
                       <<"assignId,documentDescription,amountOfLoan">>, NoData, in)
                 EXCEPT !.parsed = TRUE]
         ELSE
             [Response(op, 200, 10, 0, <<>>, processStampMortgage(body, now, r), in)
                 EXCEPT !.parsed = TRUE, !.service = TRUE]
    /\ UNCHANGED <<envVar, now, schema, gst, gstDeleted, cit, citCalls,
                   rental, stmt, bal, spAuth, spToken, spCalls, users,
                   regCalls>>

\* models.SalePurchaseSellersRequest: the prices in cents, and a body that
\* is not JSON.
SellersBodies ==
    [json : {TRUE}, assignID : {"A1"}, documentDescription : {"D1"},
     purchasePrice : {-1000, 10000, 20000},
     sellingPrice : {0, 10000, 20000},
     considerationAmount : {-500, 0, 20000},
     intentToClaimAbsdRefund : {0, 1}]
    \cup {[json |-> TRUE, assignID |-> "", documentDescription |-> "D1",
           purchasePrice |-> 10000, sellingPrice |-> 0,
           considerationAmount |-> 0, intentToClaimAbsdRefund |-> 0],
          [json |-> FALSE, assignID |-> "", documentDescription |-> "",
           purchasePrice |-> 0, sellingPrice |-> 0,
           considerationAmount |-> 0, intentToClaimAbsdRefund |-> 0]}

\* c.ShouldBindJSON(&req) with the binding:"required" tags of
\* SalePurchaseSellersRequest.
SellersBinds(body) ==
    /\ body.json
    /\ body.assignID # ""
    /\ body.documentDescription # ""

\* The base amount of processSalePurchaseSellers.
SellersBase(req) ==
    IF req.sellingPrice > 0 /\ req.sellingPrice > req.purchasePrice
       /\ req.sellingPrice > req.considerationAmount
    THEN req.sellingPrice
    ELSE IF req.considerationAmount > 0
            /\ req.considerationAmount > req.purchasePrice
    THEN req.considerationAmount
    ELSE req.purchasePrice

\* EStampController.processSalePurchaseSellers: 3% of the base amount, 5.00
\* at least, and 20% of the base amount on top when the ABSD refund is
\* claimed.
processSalePurchaseSellers(req, t, r) ==
    LET baseAmount == SellersBase(req)
        stampDuty == IF baseAmount * 30 < 500000 THEN 500000 ELSE baseAmount * 30
        absdAmount == IF req.intentToClaimAbsdRefund = 1 THEN baseAmount * 200 ELSE 0
    IN EStampData("SPS", "Sale Purchase Sellers", stampDuty + absdAmount, t, r)

\* POST /iras/sb/eStamp/SalePurchaseSellers
SalePurchaseSellers(h, token, body, r) ==
    LET in == [headers |-> h, token |-> token, body |-> body]
        op == "SalePurchaseSellers"
        gate == EStampGate(AppEnv, h, token)
    IN
    /\ Accept
    /\ last' =
         IF gate # 0 THEN
             Response(op, 401, 40, gate,
                      <<IF gate = 40003 THEN "headers" ELSE "access_token">>,
                      NoData, in)
         ELSE IF ~SellersBinds(body) THEN
             Response(op, 400, 40, 40005, <<"body">>, NoData, in)
         ELSE IF body.assignID = "" \/ body.documentDescription = "" THEN
             [Response(op, 400, 40, 40006,
                       <<"assignId,documentDescription">>, NoData, in)
                 EXCEPT !.parsed = TRUE]
         ELSE
             [Response(op, 200, 10, 0, <<>>,
                       processSalePurchaseSellers(body, now, r), in)
                 EXCEPT !.parsed = TRUE, !.service = TRUE]
    /\ UNCHANGED <<envVar, now, schema, gst, gstDeleted, cit, citCalls,
                   rental, stmt, bal, spAuth, spToken, spCalls, users,
                   regCalls>>

(***************************************************************************)
(* Users: services.AuthService and controllers.AuthController. Register    *)
(* issues two SELECTs and an INSERT, each committed on its own; no         *)
(* endpoint deletes a user. The auth endpoints answer with                 *)
(* utils.SuccessResponse / utils.ErrorResponse; the text of the error is   *)
(* kept in the data of the response.                                       *)
(***************************************************************************)
\* Requests accepted in the histories of the user endpoints.
MaxUserRequests == 4

AcceptUser == reqs < MaxUserRequests /\ reqs' = reqs + 1

\* utils.ErrorResponse(message, err)
ErrorData(text) == [error |-> text]

\* What an /auth or /admin/users handler answers.
UserResponse(op, http, data, in) ==
    [Response(op, http, -1, 0, <<>>, data, in)
        EXCEPT !.handler = TRUE,
               !.keys = IF http < 400 THEN {"success", "message", "data"}
                        ELSE {"success", "message", "error"}]

\* models.RegisterRequest as the bodies tried carry it, and a body that is
\* not JSON. A username may have the form of an e-mail address.
RegisterBodies ==
    LET body(u, e, p) ==
            [json |-> TRUE, name |-> "Al", username |-> u, email |-> e,
             password |-> p]
    IN { body("alice", "al@x.io", "secret1"),
         body("al@x.io", "bob@x.io", "secret2"),
         body("alice", "bob@x.io", "secret1"),
         body("al", "al@x.io", "secret1"),
         [json |-> FALSE, name |-> "", username |-> "", email |-> "",
          password |-> ""] }

\* validate:"required,email", for the addresses tried.
IsEmail(e) == e \in {"al@x.io", "bob@x.io"}

\* ctrl.validator.Struct(&req) on the tags of RegisterRequest.
RegisterValid(body) ==
    /\ Len(body.name) >= 2 /\ Len(body.name) <= 100
    /\ Len(body.username) >= 3 /\ Len(body.username) <= 50
    /\ IsEmail(body.email)
    /\ Len(body.password) >= 6

\* utils.HashPassword: the bcrypt hash of the password (the salt left out).
HashPassword(password) == [bcrypt |-> password]

\* utils.CheckPasswordHash
CheckPasswordHash(password, hash) == hash = HashPassword(password)

\* The user Register builds: role "user", active.
NewUser(req) ==
    [name |-> req.name, username |-> req.username, email |-> req.email,
     password |-> HashPassword(req.password), role |-> "user", isActive |-> TRUE]

\* models.UserInfo
UserInfo(rows, id) ==
    [id |-> id, name |-> rows[id].name, username |-> rows[id].username,
     email |-> rows[id].email, role |-> rows[id].role]

\* The INSERT with no index on the table.
UserCreateUnchecked(rows, row) == TRUE

\* The unique indexes of models.User: username and email.
UserCreateOK(rows, row) ==
    \A i \in DOMAIN rows :
        rows[i].username # row.username /\ rows[i].email # row.email

\* AuthController.Register up to the first SELECT of AuthService.Register:
\* Where("username = ?").First.
RegisterBegin(body) ==
    LET op == "Register" IN
    /\ AcceptUser
    /\ IF ~body.json THEN
           /\ last' = UserResponse(op, 400, ErrorData("Invalid request format"), body)
           /\ regCalls' = regCalls
       ELSE IF ~RegisterValid(body) THEN
           /\ last' = UserResponse(op, 400, ErrorData("Validation failed"), body)
           /\ regCalls' = regCalls
       ELSE IF \E i \in DOMAIN users : users[i].username = body.username THEN
           /\ last' = UserResponse(op, 409, ErrorData("username already exists"), body)
           /\ regCalls' = regCalls
       ELSE
           /\ last' = last
           /\ regCalls' = Append(regCalls, [pc |-> "email", body |-> body])
    /\ UNCHANGED <<envVar, now, schema, gst, gstDeleted, cit, citCalls, rental,
                   stmt, bal, spAuth, spToken, spCalls, users>>

\* The second SELECT: Where("email = ?").First.
RegisterCheckEmail(c) ==
    /\ c \in DOMAIN regCalls
    /\ regCalls[c].pc = "email"
    /\ IF \E i \in DOMAIN users : users[i].email = regCalls[c].body.email THEN
           /\ last' = UserResponse("Register", 409, ErrorData("email already exists"),
                                   regCalls[c].body)
           /\ regCalls' = [regCalls EXCEPT ![c].pc = "done"]
       ELSE
           /\ last' = last
           /\ regCalls' = [regCalls EXCEPT ![c].pc = "insert"]
    /\ UNCHANGED <<envVar, now, reqs, schema, gst, gstDeleted, cit, citCalls,
                   rental, stmt, bal, spAuth, spToken, spCalls, users>>

\* db.Create(user) and the answer: every error of the service is answered
\* with 409.
RegisterInsert(c) ==
    /\ c \in DOMAIN regCalls
    /\ regCalls[c].pc = "insert"
    /\ LET row == NewUser(regCalls[c].body) IN
       IF UserCreateOK(users, row) THEN
           /\ users' = Append(users, row)
           /\ last' = UserResponse("Register", 201,
                                   UserInfo(Append(users, row), Len(users) + 1),
                                   regCalls[c].body)
       ELSE
           /\ users' = users
           /\ last' = UserResponse("Register", 409,
                                   ErrorData("failed to create user"),
                                   regCalls[c].body)
    /\ regCalls' = [regCalls EXCEPT ![c].pc = "done"]
    /\ UNCHANGED <<envVar, now, reqs, schema, gst, gstDeleted, cit, citCalls,
                   rental, stmt, bal, spAuth, spToken, spCalls>>

\* models.LoginRequest as the bodies tried carry it.
LoginBodies ==
    [json : {TRUE}, username : {"alice", "al@x.io", ""},
     password : {"secret1", "secret2"}]

\* Where("username = ? OR email = ?", req.Username, req.Username)
UsersByLogin(rows, name) ==
    {i \in DOMAIN rows : rows[i].username = name \/ rows[i].email = name}

\* AuthService.Login: First takes the row with the least id.
LoginService(rows, req) ==
    LET hits == UsersByLogin(rows, req.username) IN
    IF hits = {} THEN [ok |-> FALSE, error |-> "invalid credentials", id |-> 0]
    ELSE IF ~rows[Min(hits)].isActive
    THEN [ok |-> FALSE, error |-> "account is deactivated", id |-> 0]
    ELSE IF ~CheckPasswordHash(req.password, rows[Min(hits)].password)
    THEN [ok |-> FALSE, error |-> "invalid credentials", id |-> 0]
    ELSE [ok |-> TRUE, error |-> "", id |-> Min(hits)]

\* utils.GenerateJWT: the claims of the token issued.
GenerateJWT(rows, id) == [user_id |-> id, role |-> rows[id].role]

\* AuthController.Login: POST /auth/login
Login(body) ==
    LET op == "Login"
        r == LoginService(users, body)
    IN
    /\ AcceptUser
    /\ last' =
         IF body.username = "" \/ body.password = "" THEN
             UserResponse(op, 400, ErrorData("Validation failed"), body)
         ELSE IF ~r.ok THEN
             [UserResponse(op, 401, ErrorData(r.error), body) EXCEPT !.service = TRUE]
         ELSE
             [UserResponse(op, 200,
                           [token |-> GenerateJWT(users, r.id),
                            user_info |-> UserInfo(users, r.id)], body)
                 EXCEPT !.service = TRUE]
    /\ UNCHANGED <<envVar, now, schema, gst, gstDeleted, cit, citCalls, rental,
                   stmt, bal, spAuth, spToken, spCalls, users, regCalls>>

\* The Authorization headers the user endpoints are tried with.
UserAuthHeaders ==
    { <<>>, <<"Bearer ", "jwt-user">>, <<"Bearer ", "jwt-admin">>,
      <<"Bearer ", "demo-token">> }

\* strconv.ParseUint(s, 10, 32)
ParseUint(s) ==
    CASE s = "1" -> [ok |-> TRUE, value |-> 1]
      [] s = "2" -> [ok |-> TRUE, value |-> 2]
      [] s = "999" -> [ok |-> TRUE, value |-> 999]
      [] OTHER -> [ok |-> FALSE, value |-> 0]

\* The JSON objects PUT /auth/profile is tried with: maps from key to value.
UpdatePayloads ==
    { [k \in {"name"} |-> "Alice"],
      [k \in {"role"} |-> "admin"],
      [k \in {"is_active"} |-> FALSE],
      [k \in {"Role"} |-> "admin"],
      [k \in {"IsActive"} |-> FALSE],
      [k \in {"nickname"} |-> "Al"],
      [k \in {"name", "role", "is_active"} |->
          CASE k = "name" -> "Alice" [] k = "role" -> "admin" [] OTHER -> FALSE] }

\* delete(updates, key)
DeleteKey(updates, key) == [k \in DOMAIN updates \ {key} |-> updates[k]]

\* gorm's Schema.LookUpField: a key of the map names a column by its
\* database name or by the name of the struct field; "" when it names none.
LookUpField(k) ==
    CASE k \in {"name", "Name"} -> "name"
      [] k \in {"username", "Username"} -> "username"
      [] k \in {"email", "Email"} -> "email"
      [] k \in {"password", "Password"} -> "password"
      [] k \in {"role", "Role"} -> "role"
      [] k \in {"is_active", "IsActive"} -> "is_active"
      [] OTHER -> ""

\* The lookup by database name only.
LookUpColumnOnly(k) ==
    IF k \in {"name", "username", "email", "password", "role", "is_active"}
    THEN k ELSE ""

\* The value the map assigns to a column, or the column's old value.
Assigned(updates, col, old) ==
    LET keys == {k \in DOMAIN updates : LookUpField(k) = col}
    IN IF keys = {} THEN old ELSE updates[CHOOSE k \in keys : TRUE]

\* db.Model(&models.User{}).Where("id = ?", id).Updates(updates): an error
\* when a key names no column, else the row with that id is written.
UpdateUser(rows, id, updates) ==
    IF \E k \in DOMAIN updates : LookUpField(k) = ""
    THEN [ok |-> FALSE, rows |-> rows]
    ELSE [ok |-> TRUE,
          rows |-> [i \in DOMAIN rows |->
                      IF i # id THEN rows[i]
                      ELSE [rows[i] EXCEPT
                              !.name = Assigned(updates, "name", @),
                              !.role = Assigned(updates, "role", @),
                              !.isActive = Assigned(updates, "is_active", @)]]]

\* AuthController.UpdateProfile: PUT /auth/profile
UpdateProfile(authHeader, payload) ==
    LET op == "UpdateProfile"
        a == AuthRequired(AppEnv, authHeader)
        in == [auth |-> authHeader, payload |-> payload]
        userID == ParseUint(a.user_id)
        updates == DeleteKey(DeleteKey(payload, "role"), "is_active")
        r == UpdateUser(users, userID.value, updates)
    IN
    /\ AcceptUser
    /\ IF a.abort THEN
           /\ last' = [Unauthorized(op, a, authHeader) EXCEPT !.req = in]
           /\ users' = users
       ELSE IF ~userID.ok THEN
           /\ last' = [UserResponse(op, 400, ErrorData("Invalid user ID"), in)
                          EXCEPT !.role = a.role]
           /\ users' = users
       ELSE IF ~r.ok THEN
           /\ last' = [UserResponse(op, 500, ErrorData("Failed to update profile"), in)
                          EXCEPT !.role = a.role, !.service = TRUE]
           /\ users' = users
       ELSE
           /\ last' = [UserResponse(op, 200, NoData, in)
                          EXCEPT !.role = a.role, !.service = TRUE]
           /\ users' = r.rows
    /\ UNCHANGED <<envVar, now, schema, gst, gstDeleted, cit, citCalls, rental,
                   stmt, bal, spAuth, spToken, spCalls, regCalls>>

\* Any authenticated caller passes.
IsAdminAnyRole(role) == TRUE

\* role, exists := c.Get("role"); !exists || role != "admin"
IsAdmin(role) == role = "admin"

\* AuthService.GetAllUsers with the default page and limit.
GetAllUsersService(rows) ==
    [ids |-> {i \in DOMAIN rows : i <= DefaultLimit}, total |-> Len(rows),
     page |-> 1, limit |-> DefaultLimit]

\* AuthController.GetAllUsers: GET /admin/users
GetAllUsers(authHeader) ==
    LET op == "GetAllUsers"
        a == AuthRequired(AppEnv, authHeader)
        in == [auth |-> authHeader]
    IN
    /\ AcceptUser
    /\ last' =
         IF a.abort THEN Unauthorized(op, a, authHeader)
         ELSE IF ~IsAdmin(a.role) THEN
             [UserResponse(op, 403, ErrorData("Admin access required"), in)
                 EXCEPT !.role = a.role]
         ELSE
             [UserResponse(op, 200, GetAllUsersService(users), in)
                 EXCEPT !.role = a.role, !.service = TRUE]
    /\ UNCHANGED <<envVar, now, schema, gst, gstDeleted, cit, citCalls, rental,
                   stmt, bal, spAuth, spToken, spCalls, users, regCalls>>

\* AuthService.DeactivateUser: Update("is_active", false) where id = ?; no
\* row with that id is no error.
DeactivateUserService(rows, id) ==
    [i \in DOMAIN rows |-> IF i = id THEN [rows[i] EXCEPT !.isActive = FALSE]
                           ELSE rows[i]]

\* AuthController.DeactivateUser: PUT /admin/users/:id/deactivate
DeactivateUser(authHeader, id) ==
    LET op == "DeactivateUser"
        a == AuthRequired(AppEnv, authHeader)
        in == [auth |-> authHeader, id |-> id]
    IN
    /\ AcceptUser
    /\ IF a.abort THEN
           /\ last' = [Unauthorized(op, a, authHeader) EXCEPT !.req = in]
           /\ users' = users
       ELSE IF ~IsAdmin(a.role) THEN
           /\ last' = [UserResponse(op, 403, ErrorData("Admin access required"), in)
                          EXCEPT !.role = a.role]
           /\ users' = users
       ELSE
           /\ last' = [UserResponse(op, 200, NoData, in)
                          EXCEPT !.role = a.role, !.service = TRUE]
           /\ users' = DeactivateUserService(users, id)
    /\ UNCHANGED <<envVar, now, schema, gst, gstDeleted, cit, citCalls, rental,
                   stmt, bal, spAuth, spToken, spCalls, regCalls>>

(***************************************************************************)
(* The initial state: an empty store, a configuration read from the        *)
(* environment, no request in flight.                                      *)
(***************************************************************************)
NoResponse == Response("", 0, -1, 0, <<>>, NoData, NoData)

\* No index beyond the ones the model structs under src declare.
DeclaredIndexes ==
    [citConversionIDUnique |-> FALSE, spAuthStateUnique |-> FALSE,
     spTokenStateUnique |-> FALSE]

\* models.CITConversionRecord, models.SingPassAuthRecord and
\* models.SingPassTokenRecord are not among the sources: the first table may
\* or may not carry a unique index on conversion_id, the other two on state.
CITSchemas == {[DeclaredIndexes EXCEPT !.citConversionIDUnique = u] : u \in BOOLEAN}

SingPassSchemas ==
    {[DeclaredIndexes EXCEPT !.spAuthStateUnique = u, !.spTokenStateUnique = t] :
        u \in BOOLEAN, t \in BOOLEAN}

InitStore ==
    /\ now = 0
    /\ reqs = 0
    /\ gst = <<>>
    /\ gstDeleted = {}
    /\ cit = <<>>
    /\ citCalls = <<>>
    /\ rental = <<>>
    /\ stmt = <<>>
    /\ bal = <<>>
    /\ spAuth = <<>>
    /\ spToken = <<>>
    /\ spCalls = <<>>
    /\ users = <<>>
    /\ regCalls = <<>>
    /\ last = NoResponse

\* The process starts with ENV unset or set to production.
Init ==
    /\ envVar \in {"", "production"}
    /\ schema = DeclaredIndexes
    /\ InitStore

RowIds == 1..2

\* The calls that can be in flight: one per accepted request.
CallIds == 1..MaxRequests

UserCallIds == 1..MaxUserRequests

\* The headers the administrative writes are tried with: none and the demo
\* token (the reads are tried with every header of AuthHeaders).
AdminAuthHeaders == { <<>>, <<"Bearer ", "demo-token">> }

\* The GST endpoints: the public lookup and the protected administration.
Next ==
    \/ \E h \in HeaderValues, body \in GSTBodies : SearchGSTRegistered(h, body)
    \/ \E auth \in AdminAuthHeaders, c \in {"C1", "C2"}, r \in {"R1", "R2"},
          p \in GSTPayloads : CreateGSTRegistration(auth, c, r, p)
    \/ \E auth \in AuthHeaders, id \in RowIds : GetGSTRegistration(auth, id)
    \/ \E auth \in AdminAuthHeaders, page \in {0, 1, 2}, limit \in {1, 101} :
          GetGSTRegistrations(auth, page, limit)
    \/ \E auth \in AdminAuthHeaders, id \in RowIds, u \in GSTUpdates :
          UpdateGSTRegistration(auth, id, u)
    \/ \E auth \in AdminAuthHeaders, id \in RowIds : DeleteGSTRegistration(auth, id)

Spec == Init /\ [][Next]_vars

\* Of each endpoint's bodies, the ones the gate is tried with: those that
\* pass every check of the handler, and the ones that are not JSON.
GateGSTBodies == {b \in GSTBodies : ~b.json \/ (b.clientID = "C1" /\ b.regID = "R1")}

GateAISBodies ==
    {b \in AISBodies : ~b.json \/ (AISRequired(b) /\ SearchOrganization(b).rc = 10)}

GateSSDBodies == {b \in IndustrialSSDBodies : ~b.json \/ IndustrialSSDValidate(b) = <<>>}

GateRentalBodies == {b \in RentalBodies : ~b.json \/ RentalValidate(b).ok}

GateCITBodies == {b \in CITBodies : ~b.json \/ b.id = 1}

GateAuthRequests == {r \in SingPassAuthRequests : r.state = "S1"}

GateTokenBodies ==
    {b \in SingPassTokenBodies :
        ~b.json \/ (SingPassTokenValidate(b).ok /\ b.state = "S1")}

\* The submission endpoints that generate a business key from the clock,
\* in production mode.
InitSubmit ==
    /\ envVar = "production"
    /\ schema \in CITSchemas
    /\ InitStore

\* The headers these endpoints are tried with: both present, both absent.
SubmitHeaders == {h \in HeaderValues : (h.id = "") <=> (h.secret = "")}

NextSubmit ==
    \/ Tick
    \/ \E h \in SubmitHeaders, body \in CITBodies : CITBegin(h, body)
    \/ \E c \in CallIds : CITInsert(c)
    \/ \E h \in SubmitHeaders, body \in RentalBodies : SubmitRental(h, body)

SpecSubmit == InitSubmit /\ [][NextSubmit]_vars

\* The property lookups and the administration of their two tables, in
\* production mode.
InitProperty ==
    /\ envVar = "production"
    /\ schema = DeclaredIndexes
    /\ InitStore

\* The administrator's header.
DemoAuthHeaders == { <<"Bearer ", "demo-token">> }

NextProperty ==
    \/ \E h \in SubmitHeaders, body \in StatementBodies :
          RetrieveConsolidatedStatement(h, body)
    \/ \E h \in SubmitHeaders, body \in BalanceBodies :
          SearchPropertyTaxBalance(h, body)
    \/ \E auth \in DemoAuthHeaders, record \in StatementRecords :
          CreateConsolidatedStatementRecord(auth, record)
    \/ \E auth \in DemoAuthHeaders, id \in RowIds :
          DeleteConsolidatedStatementRecord(auth, id)
    \/ \E auth \in DemoAuthHeaders, record \in BalanceRecords :
          CreatePropertyTaxBalanceRecord(auth, record)
    \/ \E auth \in DemoAuthHeaders, id \in RowIds :
          DeletePropertyTaxBalanceRecord(auth, id)

SpecProperty == InitProperty /\ [][NextProperty]_vars

\* Pagination: the helper, and the handler that lists the rental
\* submissions.
NextPaginate ==
    \/ \E page \in PageParams, limit \in LimitParams : PaginateCall(page, limit)
    \/ \E auth \in DemoAuthHeaders, page \in PageParams, limit \in LimitParams :
          GetRentalSubmissionRecords(auth, page, limit)
    \/ \E h \in SubmitHeaders, body \in GateRentalBodies : SubmitRental(h, body)

SpecPaginate == InitProperty /\ [][NextPaginate]_vars

\* The organization search: the endpoint and the service under it.
NextAIS ==
    \/ \E h \in HeaderValues, body \in AISBodies : AISOrgSearch(h, body)
    \/ \E req \in AISRequests : SearchOrganizationCall(req)

SpecAIS == Init /\ [][NextAIS]_vars

\* The eStamp handlers, with the clock that their document references read.
NextStamp ==
    \/ Tick
    \/ \E h \in SubmitHeaders, token \in AccessTokens, body \in TenancyBodies,
          r \in RandValues : StampTenancyAgreement(h, token, body, r)
    \/ \E h \in SubmitHeaders, token \in AccessTokens, body \in MortgageBodies,
          r \in RandValues : StampMortgage(h, token, body, r)

SpecStamp == Init /\ [][NextStamp]_vars

\* The seller stamp duty calculator for industrial property.
NextSSD ==
    \E h \in HeaderValues, body \in IndustrialSSDBodies : CalIndustrialSSD(h, body)

SpecSSD == Init /\ [][NextSSD]_vars

\* The seller's stamping of a sale and purchase, with the clock.
NextSellers ==
    \/ Tick
    \/ \E h \in SubmitHeaders, token \in AccessTokens, body \in SellersBodies,
          r \in RandValues : SalePurchaseSellers(h, token, body, r)

SpecSellers == Init /\ [][NextSellers]_vars

\* The SingPass flow.
InitSingPass ==
    /\ envVar \in {"", "production"}
    /\ schema \in SingPassSchemas
    /\ InitStore

NextSingPass ==
    \/ Tick
    \/ \E h \in HeaderValues, req \in SingPassAuthRequests : SingPassServiceAuth(h, req)
    \/ \E h \in HeaderValues, body \in SingPassTokenBodies : AuthTokenSelect(h, body)
    \/ \E c \in CallIds : AuthTokenInsert(c)
    \/ \E c \in CallIds : AuthTokenUpdate(c)

SpecSingPass == InitSingPass /\ [][NextSingPass]_vars

\* The token exchange alone: the clock stands still and ENV is production.
InitToken ==
    /\ envVar = "production"
    /\ schema \in SingPassSchemas
    /\ InitStore

NextToken ==
    \/ \E h \in SubmitHeaders, req \in SingPassAuthRequests : SingPassServiceAuth(h, req)
    \/ \E h \in SubmitHeaders, body \in SingPassTokenBodies : AuthTokenSelect(h, body)
    \/ \E c \in CallIds : AuthTokenInsert(c)
    \/ \E c \in CallIds : AuthTokenUpdate(c)

SpecToken == InitToken /\ [][NextToken]_vars

\* Registration alone, its statements interleaved.
NextRegister ==
    \/ \E body \in RegisterBodies : RegisterBegin(body)
    \/ \E c \in UserCallIds : RegisterCheckEmail(c)
    \/ \E c \in UserCallIds : RegisterInsert(c)

SpecRegister == InitProperty /\ [][NextRegister]_vars

\* The user endpoints.
NextUsers ==
    \/ \E body \in RegisterBodies : RegisterBegin(body)
    \/ \E c \in UserCallIds : RegisterCheckEmail(c)
    \/ \E c \in UserCallIds : RegisterInsert(c)
    \/ \E body \in LoginBodies : Login(body)
    \/ \E auth \in UserAuthHeaders, payload \in UpdatePayloads :
          UpdateProfile(auth, payload)
    \/ \E auth \in UserAuthHeaders : GetAllUsers(auth)
    \/ \E auth \in UserAuthHeaders, id \in RowIds : DeactivateUser(auth, id)

SpecUsers == InitProperty /\ [][NextUsers]_vars

\* Registration and the two administrative user endpoints.
NextAdminUsers ==
    \/ \E body \in RegisterBodies : RegisterBegin(body)
    \/ \E c \in UserCallIds : RegisterCheckEmail(c)
    \/ \E c \in UserCallIds : RegisterInsert(c)
    \/ \E auth \in UserAuthHeaders : GetAllUsers(auth)
    \/ \E auth \in UserAuthHeaders, id \in RowIds : DeactivateUser(auth, id)

SpecAdminUsers == InitProperty /\ [][NextAdminUsers]_vars

\* Registration, login and deactivation.
NextLogin ==
    \/ \E body \in RegisterBodies : RegisterBegin(body)
    \/ \E c \in UserCallIds : RegisterCheckEmail(c)
    \/ \E c \in UserCallIds : RegisterInsert(c)
    \/ \E body \in LoginBodies : Login(body)
    \/ \E auth \in UserAuthHeaders, id \in RowIds : DeactivateUser(auth, id)

SpecLogin == InitProperty /\ [][NextLogin]_vars

\* Every IRAS endpoint of the model, in each runtime mode.
InitGate ==
    /\ envVar \in EnvValues
    /\ schema = DeclaredIndexes
    /\ InitStore

NextGate ==
    \/ \E h \in HeaderValues, body \in GateGSTBodies : SearchGSTRegistered(h, body)
    \/ \E h \in HeaderValues, body \in GateAISBodies : AISOrgSearch(h, body)
    \/ \E h \in HeaderValues, body \in GateSSDBodies : CalIndustrialSSD(h, body)
    \/ \E h \in HeaderValues, body \in GateRentalBodies : SubmitRental(h, body)
    \/ \E h \in HeaderValues, body \in GateCITBodies : CITBegin(h, body)
    \/ \E c \in CallIds : CITInsert(c)
    \/ \E h \in HeaderValues, req \in GateAuthRequests : SingPassServiceAuth(h, req)
    \/ \E h \in HeaderValues, body \in GateTokenBodies : AuthTokenSelect(h, body)
    \/ \E c \in CallIds : AuthTokenInsert(c)
    \/ \E c \in CallIds : AuthTokenUpdate(c)

SpecGate == InitGate /\ [][NextGate]_vars

(***************************************************************************)
(* Properties of the bearer-token gate and of the GST endpoints (Spec).    *)
(***************************************************************************)
AdminOps ==
    {"CreateGSTRegistration", "GetGSTRegistration", "GetGSTRegistrations",
     "UpdateGSTRegistration", "DeleteGSTRegistration"}

\* The bearer token of the request that `last` answers starts with the demo
\* prefix.
DemoTokenPresented ==
    /\ last.op \in AdminOps
    /\ HasPrefix(ReplaceFirst(last.req.auth, "Bearer "), "demo-token")

\* C1: outside development mode a request whose bearer token matches the
\* demo prefix is answered 401, the protected handler does not run and no
\* role is set in the context.
C1_DemoTokenRejectedOutsideDevelopment ==
    (AppEnv # "development" /\ DemoTokenPresented) =>
        /\ last.http = 401
        /\ ~last.handler
        /\ last.role = ""

\* The lookup reached the service with the body's own clientID and regID,
\* both non-blank.
GSTLookupWithBodyIDs ==
    /\ last.op = "SearchGSTRegistered"
    /\ last.service
    /\ TrimSpace(last.req.body.clientID) # ""
    /\ TrimSpace(last.req.body.regID) # ""

\* C6: a lookup with non-blank clientID and regID answers 10 (HTTP 200) with
\* the stored fields of the registration exactly when a registration that is
\* not deleted has that regID and that clientID; otherwise it answers 20
\* (HTTP 404) without data.
C6_LookupFindsExactPair ==
    GSTLookupWithBodyIDs =>
        LET hits == {i \in DOMAIN gst :
                        /\ ~gst[i].deleted
                        /\ gst[i].regID = last.req.body.regID
                        /\ gst[i].clientID = last.req.body.clientID}
        IN IF hits # {}
           THEN /\ last.rc = 10
                /\ last.http = 200
                /\ \E i \in hits :
                     /\ last.data.name = gst[i].name
                     /\ last.data.gstRegistrationNumber = gst[i].gstNo
                     /\ last.data.registrationId = gst[i].regID
                     /\ last.data.RegisteredFrom = gst[i].regFrom
                     /\ last.data.RegisteredTo = gst[i].regTo
                     /\ last.data.Remarks = gst[i].remarks
                     /\ last.data.Status = gst[i].status
           ELSE /\ last.rc = 20
                /\ last.http = 404
                /\ last.data = NoData

\* C6 witness: a registration id that is stored for another client is
\* looked up and reported as not found.
C6_Witness ==
    /\ GSTLookupWithBodyIDs
    /\ last.rc = 20
    /\ \E i \in DOMAIN gst :
         /\ ~gst[i].deleted
         /\ gst[i].regID = last.req.body.regID
         /\ gst[i].clientID # last.req.body.clientID

\* C7: a lookup whose body has an empty clientID and regID "R1", and which
\* passes the header gate, is answered with returnCode 40 and a field error
\* on clientID, and returns no lookup result.
C7_EmptyClientIDRejected ==
    ( /\ last.op = "SearchGSTRegistered"
      /\ last.parsed
      /\ last.req.body.clientID = ""
      /\ last.req.body.regID = "R1" ) =>
        /\ last.rc = 40
        /\ last.fields = <<"clientID">>
        /\ last.data = NoData

\* C8: once DeleteGSTRegistration has succeeded on a row, the row stays in
\* the table marked deleted, and every read answered afterwards leaves it
\* out: the read by id says not found, the list and its total omit it, the
\* public lookup of its (regID, clientID) answers 20.
C8_DeletedStaysHidden ==
    \A id \in gstDeleted :
        /\ id \in DOMAIN gst
        /\ gst[id].deleted
        /\ (last.op = "GetGSTRegistration" /\ last.handler /\ last.req.id = id)
              => last.http = 404 /\ last.data = NoData
        /\ (last.op = "GetGSTRegistrations" /\ last.handler)
              => /\ id \notin last.data.ids
                 /\ last.data.total = Cardinality({i \in DOMAIN gst : ~gst[i].deleted})
        /\ ( /\ last.op = "SearchGSTRegistered"
             /\ last.service
             /\ last.req.body.regID = gst[id].regID
             /\ last.req.body.clientID = gst[id].clientID )
              => last.rc = 20 /\ last.http = 404

\* C8 witness: a row was deleted and then read by its id.
C8_Witness ==
    /\ last.op = "GetGSTRegistration"
    /\ last.handler
    /\ last.req.id \in gstDeleted
    /\ last.http = 404

(***************************************************************************)
(* Properties of the CIT conversion and of the rental submission           *)
(* (SpecSubmit).                                                           *)
(***************************************************************************)
\* The calls made so far ran one after another: each began after every
\* earlier one had answered, and each has answered.
CITSequential ==
    \A c \in DOMAIN citCalls :
        /\ citCalls[c].pc = "done"
        /\ citCalls[c].prior = 1..(c - 1)

CITRecordsOf(id) == {i \in DOMAIN cit : cit[i].requestID = id}

CITRaced(c, d) ==
    /\ c < d
    /\ citCalls[c].id = citCalls[d].id
    /\ citCalls[c].missed /\ citCalls[d].missed
    /\ citCalls[c].pc = "done" /\ citCalls[d].pc = "done"

\* C3: the read and the insert of ConvertFormCS are not one transaction:
\* two calls with one request id can both find no record and both attempt
\* the insert.  When they have, the store holds two records (or more) for
\* that request id, or one of the inserts failed and was answered 50.
C3_RaceEndsInTwoRecordsOrFailure ==
    \A c, d \in DOMAIN citCalls :
        CITRaced(c, d) =>
            \/ Cardinality(CITRecordsOf(citCalls[c].id)) >= 2
            \/ citCalls[c].rc = 50
            \/ citCalls[d].rc = 50

\* C3 witness: both calls found no record, both inserted, and the store
\* holds two records for the one request id.
C3_Witness ==
    \E c, d \in DOMAIN citCalls :
        /\ CITRaced(c, d)
        /\ citCalls[c].rc = 10 /\ citCalls[d].rc = 10
        /\ Cardinality(CITRecordsOf(citCalls[c].id)) = 2

\* C5: no two rental submission records carry the same refNo and no two CIT
\* conversion records carry the same conversionID, also when they are
\* created within one second.
C5_BusinessKeysUnique ==
    /\ \A i, j \in DOMAIN rental : i # j => rental[i].refNo # rental[j].refNo
    /\ \A i, j \in DOMAIN cit : i # j => cit[i].conversionID # cit[j].conversionID

(***************************************************************************)
(* Properties of the SingPass flow (SpecSingPass).                         *)
(***************************************************************************)
\* C4: in every reachable state an auth record is 'completed' if and only
\* if a token record with the same state exists (it starts 'pending' and
\* becomes 'completed' exactly when the token record for its state is
\* created).
C4_CompletedIffTokenExists ==
    \A a \in DOMAIN spAuth :
        (spAuth[a].status = "completed") <=>
            (\E t \in DOMAIN spToken : spToken[t].state = spAuth[a].state)

(***************************************************************************)
(* Properties of the header gate of the IRAS endpoints (SpecGate).         *)
(***************************************************************************)
IRASOps ==
    {"SearchGSTRegistered", "AISOrgSearch", "CalIndustrialSSD", "SubmitRental",
     "ConvertFormCS", "SingPassServiceAuth", "SingPassServiceAuthToken"}

\* The request that `last` answers was refused before its body was parsed
\* and before any service ran.
RejectedAtGate ==
    /\ last.http \in {400, 401}
    /\ ~last.parsed
    /\ ~last.service

\* C9: outside development mode every IRAS endpoint refuses a request that
\* lacks X-IBM-Client-Id or X-IBM-Client-Secret before it parses the body or
\* calls a service.
C9_MissingHeadersRejectedFirst ==
    ( /\ AppEnv # "development"
      /\ last.op \in IRASOps
      /\ LacksHeader(last.req.headers) ) => RejectedAtGate

\* C10: with no ENV value configured the development bypass is off: an
\* endpoint that checks the two headers refuses a request that lacks one of
\* them, and does not fill it from the configuration.
C10_BypassOffByDefault ==
    ( /\ envVar = ""
      /\ last.op \in IRASOps \ {"AISOrgSearch"}
      /\ LacksHeader(last.req.headers) ) => RejectedAtGate

(***************************************************************************)
(* Properties of the rental submission (SpecSubmit).                       *)
(***************************************************************************)
\* The step is a SubmitRental request that the service received.
RentalStep ==
    /\ reqs' = reqs + 1
    /\ citCalls' = citCalls
    /\ last'.op = "SubmitRental"
    /\ last'.service

\* 'RNT' followed by fourteen decimal digits.
IsRefNo(r) ==
    /\ r.prefix = "RNT"
    /\ Len(r.stamp) = 14
    /\ \A i \in 1..Len(r.stamp) : r.stamp[i] \in 0..9

\* No step changes or removes a stored submission record.
RentalRecordsKept ==
    /\ Len(rental') >= Len(rental)
    /\ \A i \in DOMAIN rental : rental'[i] = rental[i]

\* C11: a SubmitRental request that passes validation inserts exactly one
\* record, with status 'submitted', TotalProperties equal to the number of
\* propertyDtl items and a generated refNo of the form 'RNT' + 14 digits;
\* the response has returnCode 0 and carries that refNo; and no step of the
\* public flow changes a stored record afterwards.
C11_ValidSubmissionStoresOneRecord ==
    [][ /\ RentalRecordsKept
        /\ (RentalStep /\ RentalValidate(last'.req.body).ok) =>
              /\ Len(rental') = Len(rental) + 1
              /\ rental'[Len(rental')].status = "submitted"
              /\ rental'[Len(rental')].totalProperties = Len(last'.req.body.propertyDtl)
              /\ IsRefNo(rental'[Len(rental')].refNo)
              /\ rental'[Len(rental')].refNo = generateRefNo(now)
              /\ last'.rc = 0
              /\ last'.http = 200
              /\ last'.data.refNo = rental'[Len(rental')].refNo ]_vars

\* C11 witness: a submission was accepted after the hour changed (so the
\* timestamp has leading zeros to keep), and a later request found its
\* record in place.
C11_Witness ==
    /\ Len(rental) >= 1
    /\ rental[1].refNo.stamp = FormatTimestamp(1)
    /\ last.op = "SubmitRental"
    /\ last.rc = 40

\* The line items of a body whose propertyTaxRef is blank, in order.
BlankItems(dtl) == SelectSeq(dtl, LAMBDA p : TrimSpace(p.propertyTaxRef) = "")

\* The step is a SubmitRental request whose organisation fields are valid.
RentalOrgValidStep ==
    /\ RentalStep
    /\ last'.req.body.org.assmtYear > 0
    /\ TrimSpace(last'.req.body.org.authorisedPersonEmail) # ""
    /\ TrimSpace(last'.req.body.org.authorisedPersonName) # ""
    /\ TrimSpace(last'.req.body.org.developmentName) # ""

\* C12: a SubmitRental request with valid organisation fields and an empty
\* propertyDtl array is answered with returnCode 40, message code 40005 and
\* one field error on propertyDtl, and stores no submission record.
C12_EmptyPropertyDtlRejected ==
    [][ (RentalOrgValidStep /\ Len(last'.req.body.propertyDtl) = 0) =>
            /\ last'.rc = 40
            /\ last'.mc = 40005
            /\ last'.fields = <<"propertyDtl">>
            /\ rental' = rental ]_vars

\* C12 witness: such a request was answered while a record of an earlier
\* submission was in the store.
C12_Witness ==
    /\ last.op = "SubmitRental"
    /\ last.service
    /\ RentalValidate(last.req.body).mc = 40005
    /\ Len(rental) = 1

\* C13: a SubmitRental request with valid organisation fields and a
\* non-empty propertyDtl is answered with one field error for each line item
\* whose propertyTaxRef is blank, all in one response (returnCode 40,
\* messageCode 40006), each carrying that item's recordID, and stores
\* nothing; it stores a record only when no line item is blank.
C13_OneErrorPerBlankItem ==
    [][ (RentalOrgValidStep /\ Len(last'.req.body.propertyDtl) > 0) =>
          LET blank == BlankItems(last'.req.body.propertyDtl)
          IN IF Len(blank) > 0
             THEN /\ last'.rc = 40
                  /\ last'.mc = 40006
                  /\ Len(last'.fields) = Len(blank)
                  /\ \A i \in DOMAIN blank :
                        /\ last'.fields[i].field = "propertyTaxRef"
                        /\ last'.fields[i].recordID * 10 = blank[i].recordID
                  /\ rental' = rental
             ELSE Len(rental') = Len(rental) + 1 ]_vars

\* The same with the recordID of each error read as the code writes it, in
\* no decimals.
RentalErrorsCollected ==
    [][ (RentalOrgValidStep /\ Len(last'.req.body.propertyDtl) > 0) =>
          LET blank == BlankItems(last'.req.body.propertyDtl)
          IN IF Len(blank) > 0
             THEN /\ last'.rc = 40
                  /\ last'.mc = 40006
                  /\ Len(last'.fields) = Len(blank)
                  /\ \A i \in DOMAIN blank :
                        /\ last'.fields[i].field = "propertyTaxRef"
                        /\ last'.fields[i].recordID = FormatRecordID(blank[i].recordID)
                  /\ rental' = rental
             ELSE Len(rental') = Len(rental) + 1 ]_vars

\* C14: every response that reports a validation failure (returnCode 40 with
\* a list of field errors) is sent with HTTP status 400, 401 or 422, never
\* with 200, whichever endpoint answers.
C14_ValidationFailureNeverHTTP200 ==
    (last.rc = 40 /\ Len(last.fields) > 0) => last.http \in {400, 401, 422}

(***************************************************************************)
(* Properties of the property lookups (SpecProperty).                      *)
(***************************************************************************)
\* The step is a lookup `op` whose request reached the service.
LookupStep(op) ==
    /\ reqs' = reqs + 1
    /\ last'.op = op
    /\ last'.service

\* The rows of the statement table a request is about: not deleted, both
\* references equal.
MatchingStatements(req) ==
    {i \in DOMAIN stmt :
        /\ ~stmt[i].deleted
        /\ stmt[i].refNo = req.refNo
        /\ stmt[i].propertyTaxRef = req.propertyTaxRef}

\* The rows of the balance table a request is about.
MatchingBalances(req) ==
    {i \in DOMAIN bal :
        /\ ~bal[i].deleted
        /\ bal[i].clientID = req.clientID
        /\ req.pptyTaxRefNo = "" \/ bal[i].propertyTaxReferenceNo = req.pptyTaxRefNo
        /\ req.postalCode = "" \/ bal[i].postalCode = req.postalCode}

\* A statement lookup with both references non-blank.
StatementLookupStep ==
    /\ LookupStep("RetrieveConsolidatedStatement")
    /\ TrimSpace(last'.req.body.refNo) # ""
    /\ TrimSpace(last'.req.body.propertyTaxRef) # ""

\* A balance lookup with a non-blank clientID.
BalanceLookupStep ==
    /\ LookupStep("SearchPropertyTaxBalance")
    /\ TrimSpace(last'.req.body.clientID) # ""

\* What a lookup answers on a miss: returnCode 0 around a mock that echoes
\* the references of the request.
StatementMockAnswer ==
    /\ last'.rc = 0
    /\ last'.data.statement.mock
    /\ last'.data.refNo = last'.req.body.refNo
    /\ last'.data.propertyTaxRef = last'.req.body.propertyTaxRef

BalanceAnswer ==
    /\ last'.rc = 0
    /\ last'.data.mock <=> MatchingBalances(last'.req.body) = {}
    /\ (last'.data.mock /\ last'.req.body.pptyTaxRefNo # "") =>
           last'.data.propertyTaxReferenceNo = last'.req.body.pptyTaxRefNo
    /\ ~last'.data.mock =>
           \E i \in MatchingBalances(last'.req.body) :
               last'.data.propertyTaxReferenceNo = bal[i].propertyTaxReferenceNo

\* C15: a property lookup never answers 'not found': with non-blank
\* references it returns returnCode 0 whether or not a matching row that is
\* not deleted exists, on a miss with a mock that echoes the request's
\* references, and it leaves the store as it was.
C15_LookupAlwaysReturnsZero ==
    [][ /\ StatementLookupStep =>
              /\ last'.rc = 0
              /\ MatchingStatements(last'.req.body) = {} => StatementMockAnswer
              /\ stmt' = stmt /\ bal' = bal
        /\ BalanceLookupStep =>
              /\ BalanceAnswer
              /\ stmt' = stmt /\ bal' = bal ]_vars

\* The first matching statement row holds a document that does not decode.
StatementUndecodable(req) ==
    /\ MatchingStatements(req) # {}
    /\ LET data == stmt[Min(MatchingStatements(req))].consolidatedData
       IN data # "" /\ data # "{\"totalAmount\":\"9.00\"}"

\* C15 as amended: the same, except that a statement lookup whose matching
\* row holds a consolidated_data text that does not decode is answered as an
\* internal error (returnCode 50, HTTP 500).
C15_LookupReturnsZeroUnlessUndecodable ==
    [][ /\ StatementLookupStep =>
              /\ IF StatementUndecodable(last'.req.body)
                 THEN last'.rc = 50 /\ last'.http = 500
                 ELSE last'.rc = 0 /\ last'.http = 200
              /\ MatchingStatements(last'.req.body) = {} => StatementMockAnswer
              /\ MatchingStatements(last'.req.body) # {} /\ last'.rc = 0 =>
                    /\ ~last'.data.statement.mock
                    /\ last'.data.refNo = last'.req.body.refNo
                    /\ last'.data.propertyTaxRef = last'.req.body.propertyTaxRef
              /\ stmt' = stmt /\ bal' = bal
        /\ BalanceLookupStep =>
              /\ BalanceAnswer
              /\ stmt' = stmt /\ bal' = bal ]_vars

\* C15 witness: a statement lookup was answered with the mock although a row
\* with its two references is stored, that row being deleted.
C15_Witness ==
    /\ last.op = "RetrieveConsolidatedStatement"
    /\ last.rc = 0
    /\ last.data.statement.mock
    /\ \E i \in DOMAIN stmt :
          /\ stmt[i].deleted
          /\ stmt[i].refNo = last.req.body.refNo
          /\ stmt[i].propertyTaxRef = last.req.body.propertyTaxRef

(***************************************************************************)
(* Properties of the pagination (SpecPaginate).                            *)
(***************************************************************************)
\* The last response carries a pagination result.
Paginated ==
    \/ last.op = "Paginate"
    \/ last.op = "GetRentalSubmissionRecords" /\ last.handler

\* The effective page and limit as the claim gives them.
EffectivePage(page) == IF LessThanOne(page) THEN GoInt(1) ELSE page

EffectiveLimit(limit) ==
    IF ~LessThanOne(limit) /\ ~GreaterThan100(limit) THEN limit[1] ELSE 10

\* C16: for every integer page and limit the offset is (p - 1) * l with
\* p = max(page, 1) and l = limit when 1 <= limit <= 100 and 10 otherwise;
\* offset >= 0 and 1 <= l <= 100; utils.Paginate and the list handler give
\* the same offset for the same page and limit.
C16_OffsetFromClampedPageAndLimit ==
    Paginated =>
        LET l == EffectiveLimit(last.req.limit)
            product == Times(Decrement(EffectivePage(last.req.page)), l)
        IN /\ last.data.limit = l
           /\ l \in 1..100
           /\ last.data.offset = product.low
           /\ product.high = 0
           /\ ~IsNegative(last.data.offset)
           /\ last.data.offset = Paginate(last.req.page, last.req.limit).offset

\* The same without the conditions that the product fits an int: the limit
\* is in range, the offset is the wrapped product, helper and handler agree.
PaginationAgrees ==
    Paginated =>
        LET l == EffectiveLimit(last.req.limit)
            product == Times(Decrement(EffectivePage(last.req.page)), l)
        IN /\ last.data.limit = l
           /\ l \in 1..100
           /\ last.data.offset = product.low
           /\ last.data.offset = Paginate(last.req.page, last.req.limit).offset

(***************************************************************************)
(* Properties of the organization search (SpecAIS).                        *)
(***************************************************************************)
\* SearchOrganization answered a request whose clientID and organizationID
\* are not blank.
AISServed ==
    /\ last.op \in {"SearchOrganization", "AISOrgSearch"}
    /\ last.service
    /\ TrimSpace(last.req.body.clientID) # ""
    /\ TrimSpace(last.req.body.organizationID) # ""

\* C17: SearchOrganization with a non-blank clientID and organizationID
\* answers returnCode 40 with a field error on basisYear exactly when
\* basisYear is below 1900 or above 2100; in range it answers returnCode 10
\* with organizationInAIS 'Y' for a known test organization and 'N' for
\* every other id.
C17_BasisYearRangeAndLookup ==
    AISServed =>
        LET year == last.req.body.basisYear
            outOfRange == year < 1900 \/ year > 2100
        IN /\ (last.rc = 40 /\ last.fields = <<"basisYear">>) <=> outOfRange
           /\ ~outOfRange =>
                 /\ last.rc = 10
                 /\ last.data.organizationInAIS =
                       IF last.req.body.organizationID
                             \in {"4396029847797760", "1234567890123456"}
                       THEN "Y" ELSE "N"

\* C17 witness: the endpoint answered 'N' for the organization that is
\* listed as not existing, in the last year of the range.
C17_Witness ==
    /\ last.op = "AISOrgSearch"
    /\ AISServed
    /\ last.req.body.organizationID = "9999999999999999"
    /\ last.req.body.basisYear = 2100
    /\ last.rc = 10
    /\ last.data.organizationInAIS = "N"

\* C18: an AISOrgSearch request that omits clientID (organizationID and
\* basisYear given) is answered with the internal envelope success = true,
\* message 'Organization search completed successfully', around returnCode
\* 40, messageCode '40001' and a field error on clientID.
C18_OmittedClientIDInSuccessEnvelope ==
    ( /\ last.op = "AISOrgSearch"
      /\ last.req.body.json
      /\ last.req.body.clientID = ""
      /\ last.req.body.organizationID = "4396029847797760"
      /\ last.req.body.basisYear \in 1900..2100 ) =>
        /\ last.data.success
        /\ last.data.message = "Organization search completed successfully"
        /\ last.rc = 40
        /\ last.mc = "40001"
        /\ last.fields = <<"clientID">>

(***************************************************************************)
(* Properties of the eStamp duties (SpecStamp).                            *)
(***************************************************************************)
\* Response r is the duty computed for a request to `op`.
Stamped(r, op) == r.op = op /\ r.service

\* The cents nearest to max(0.4% of amount, minimum), both in cents.
DutyInCents(amount, minimum) ==
    LET duty == IF amount * 4 > minimum * 1000 THEN amount * 4 ELSE minimum * 1000
        cents == duty \div 1000
    IN IF duty - cents * 1000 >= 500 THEN cents + 1 ELSE cents

\* C19: for every accepted mortgage request (amountOfLoan > 0) the stamp
\* duty is max(0.4% of amountOfLoan, 5.00), to the cent, and TotalAmtPayable
\* equals SDAmount; amountOfLoan = 100 yields 5.00 and 10000 yields 40.00.
C19_MortgageDuty ==
    /\ (last.op = "StampMortgage" /\ last.rc = 10) => last.req.body.amountOfLoan > 0
    /\ Stamped(last, "StampMortgage") =>
          /\ last.data.sdAmount = DutyInCents(last.req.body.amountOfLoan, 500)
          /\ last.data.totalAmtPayable = last.data.sdAmount
          /\ last.req.body.amountOfLoan = 10000 => last.data.sdAmount = 500
          /\ last.req.body.amountOfLoan = 1000000 => last.data.sdAmount = 4000

\* C19 witness: a loan of 10000.00 was stamped with a duty of 40.00.
C19_Witness ==
    /\ Stamped(last, "StampMortgage")
    /\ last.req.body.amountOfLoan = 1000000
    /\ last.data.sdAmount = 4000

\* The sum of a sequence of amounts, from the right.
RECURSIVE SumOf(_)
SumOf(items) ==
    IF items = <<>> THEN 0 ELSE items[Len(items)] + SumOf(SubSeq(items, 1, Len(items) - 1))

\* The store is as it was.
StoreUnchanged ==
    UNCHANGED <<schema, gst, gstDeleted, cit, citCalls, rental, stmt, bal,
                   spAuth, spToken, spCalls, users, regCalls>>

\* A tenancy agreement is stamped and the duty is max(0.4% of the sum of
\* the line items, 1.00), with nothing stored.
TenancyDutyStep ==
    Stamped(last', "StampTenancyAgreement") /\ reqs' = reqs + 1 =>
        /\ last'.data.sdAmount =
              DutyInCents(SumOf(last'.req.body.assessmentRental), 100)
        /\ last'.data.totalAmtPayable = last'.data.sdAmount
        /\ StoreUnchanged

\* Two tenancy agreements with the same line items are stamped one after
\* the other.
TenancyRepeated ==
    /\ Stamped(last, "StampTenancyAgreement")
    /\ Stamped(last', "StampTenancyAgreement")
    /\ reqs' = reqs + 1
    /\ last'.req.body.assessmentRental = last.req.body.assessmentRental

\* C20: two StampTenancyAgreement calls with identical line items return
\* the identical SDAmount, max(0.4% of the sum of totalGrossRentAmount,
\* 1.00), whatever calls happen in between; no state is kept between calls
\* and only the document reference may differ between the two answers.
C20_TenancyDutyRepeatable ==
    [][ /\ TenancyDutyStep
        /\ TenancyRepeated =>
              /\ last'.data.sdAmount = last.data.sdAmount
              /\ [last'.data EXCEPT !.docRefNo = last.data.docRefNo] = last.data
      ]_vars

\* C20 as amended: the same, the mock PDF, which names the document
\* reference and the time of its generation, differing as well.
C20_TenancyDutyRepeatableButPDF ==
    [][ /\ TenancyDutyStep
        /\ TenancyRepeated =>
              /\ last'.data.sdAmount = last.data.sdAmount
              /\ [last'.data EXCEPT !.docRefNo = last.data.docRefNo,
                                    !.pdfBase64 = last.data.pdfBase64] = last.data
      ]_vars

\* C20 witness: the second of two tenancy agreements with the same two line
\* items was stamped a second later with the same duty and another
\* document reference.
C20_Witness ==
    /\ Stamped(last, "StampTenancyAgreement")
    /\ Len(last.req.body.assessmentRental) = 2
    /\ last.data.sdAmount = 600
    /\ last.data.docRefNo.ref.unix = 1
    /\ reqs >= 2

\* The largest of three amounts.
Max3(a, b, c) ==
    IF a >= b /\ a >= c THEN a ELSE IF b >= c THEN b ELSE c

\* The seller duty in cents on a base amount in cents: max(3% of it, 5.00),
\* plus 20% of it when the ABSD refund is claimed.
SellersDutyInCents(base, absd) ==
    LET duty == (IF base * 30 > 500000 THEN base * 30 ELSE 500000)
                + (IF absd = 1 THEN base * 200 ELSE 0)
        cents == duty \div 1000
    IN IF duty - cents * 1000 >= 500 THEN cents + 1 ELSE cents

\* C21: for every request that SalePurchaseSellers accepts the duty is
\* max(3% of the base, 5.00), plus 20% of the base when
\* intentToClaimAbsdRefund = 1, where the base is
\* max(purchasePrice, sellingPrice, considerationAmount).
C21_SellersDutyOnLargestPrice ==
    Stamped(last, "SalePurchaseSellers") =>
        LET b == last.req.body
        IN last.data.sdAmount =
              SellersDutyInCents(Max3(b.purchasePrice, b.sellingPrice,
                                      b.considerationAmount),
                                 b.intentToClaimAbsdRefund)

\* What holds of the code: the claimed duty on the base amount the handler
\* picks, which is the largest price whenever no price is negative.
SellersDutyOnHandlerBase ==
    Stamped(last, "SalePurchaseSellers") =>
        LET b == last.req.body
        IN /\ last.data.sdAmount =
                 SellersDutyInCents(SellersBase(b), b.intentToClaimAbsdRefund)
           /\ last.data.totalAmtPayable = last.data.sdAmount
           /\ (b.purchasePrice >= 0 /\ b.sellingPrice >= 0
               /\ b.considerationAmount >= 0)
                 => SellersBase(b) = Max3(b.purchasePrice, b.sellingPrice,
                                          b.considerationAmount)

(***************************************************************************)
(* Properties of the industrial seller stamp duty (SpecSSD).               *)
(***************************************************************************)
\* The rate in percent the claim gives for a holding period in years.
ClaimedSSDRate(years) ==
    CASE years = 0 -> 15 [] years = 1 -> 10 [] years = 2 -> 5 [] OTHER -> 0

\* The request of the last answer carries two dates in YYYY-MM-DD form and
\* passed the checks before the dates.
SSDDated ==
    /\ last.op = "CalIndustrialSSD" /\ last.parsed
    /\ last.req.body.clientID # "" /\ last.req.body.value > 0
    /\ last.req.body.acquisitionDate.kind = "date"
    /\ last.req.body.disposalDate.kind = "date"

\* The duty is the declared value at the claimed rate for the holding
\* period answered, the rate never rises with the years, and a disposal
\* before the acquisition is rejected.
SSDRateByHoldingPeriod ==
    /\ \A y1, y2 \in 0..5 : y1 <= y2 => IndustrialSSDRate(y1) >= IndustrialSSDRate(y2)
    /\ SSDDated =>
          LET a == last.req.body.acquisitionDate.day
              d == last.req.body.disposalDate.day
          IN IF d < a
             THEN last.http = 400 /\ last.data = NoData /\ ~last.service
                  /\ last.fields = <<"disposalDate">>
             ELSE /\ last.service /\ last.http = 200
                  /\ last.data.dutyRate = ClaimedSSDRate(last.data.holdingPeriod)
                  /\ last.data.stampDuty =
                        (last.req.body.value * last.data.dutyRate) \div 100
                  /\ d - a = 365 => last.data.dutyRate = 10
                  /\ d - a <= MaxDurationDays =>
                        last.data.holdingPeriod = (d - a) \div 365

\* C22: CalIndustrialSSD answers with the holding period
\* floor(days from acquisitionDate to disposalDate / 365) and charges the
\* declared value at 15%, 10%, 5% and 0% for 0, 1, 2 and 3 or more years,
\* so that the rate never rises with the holding period; a disposal date
\* before the acquisition date is rejected and no duty is computed.
C22_HoldingPeriodAndRate ==
    /\ SSDRateByHoldingPeriod
    /\ (SSDDated /\ last.service) =>
          last.data.holdingPeriod =
             (last.req.body.disposalDate.day
                - last.req.body.acquisitionDate.day) \div 365

(***************************************************************************)
(* The envelope of the administrative responses (Spec).                    *)
(***************************************************************************)
\* The keys of the internal envelope: success and message always, data and
\* error when present.
InternalEnvelope(keys) ==
    /\ {"success", "message"} \subseteq keys
    /\ keys \subseteq {"success", "message", "data", "error"}

\* C23: every response of an /admin endpoint, success or failure, has the
\* internal envelope shape {success, message, data?, error?}; none is a
\* bare entity or an object without the success and message fields.
C23_AdminResponsesInEnvelope ==
    last.op \in AdminOps => InternalEnvelope(last.keys)

\* What holds of the code: the middleware's 401 answers are in the
\* envelope, for every route of the group.
MiddlewareAnswersInEnvelope ==
    (last.op \in AdminOps /\ ~last.handler) => InternalEnvelope(last.keys)

\* C24: a SearchGSTRegistered lookup never creates, updates or deletes a
\* GST registration: the stored registrations and their deleted markers
\* are the same before and after the lookup, whatever its outcome.
C24_LookupLeavesRegistrations ==
    [][(last'.op = "SearchGSTRegistered" /\ reqs' = reqs + 1)
          => (gst' = gst /\ gstDeleted' = gstDeleted)]_vars

\* C24 witness: a lookup was answered with 20 over a store that holds a
\* registration, deleted before, with the regID and clientID asked for.
C24_Witness ==
    /\ last.op = "SearchGSTRegistered"
    /\ last.service
    /\ last.rc = 20
    /\ \E i \in gstDeleted :
          /\ gst[i].regID = last.req.body.regID
          /\ gst[i].clientID = last.req.body.clientID

TokenOnlyForKnownState ==
    \A t \in DOMAIN spToken : \E a \in DOMAIN spAuth : spAuth[a].state = spToken[t].state

\* The six checks of the claim, in its order: message code, field, and
\* whether the check fails for body b over the auth records.
TokenChecks(b, auth) ==
    << [mc |-> 40001, field |-> "code", fails |-> TrimSpace(b.code) = ""],
       [mc |-> 40002, field |-> "state", fails |-> TrimSpace(b.state) = ""],
       [mc |-> 40003, field |-> "callback_url", fails |-> TrimSpace(b.callbackURL) = ""],
       [mc |-> 40004, field |-> "scope", fails |-> TrimSpace(b.scope) = ""],
       [mc |-> 850301, field |-> "callback_url",
        fails |-> ~isValidCallbackURL(b.callbackURL)],
       [mc |-> 40005, field |-> "state",
        fails |-> \A a \in DOMAIN auth : auth[a].state # b.state] >>

\* The checks of TokenChecks that fail.
FailingChecks(b, auth) ==
    {i \in DOMAIN TokenChecks(b, auth) : TokenChecks(b, auth)[i].fails}

\* C27: SingPassServiceAuthToken runs its checks in the order code, state,
\* callback_url, scope non-blank, callback_url registered, auth record
\* exists for state; it reports only the first failing check (40001, 40002,
\* 40003, 40004, 850301, 40005) and in every failing case creates no token
\* record and changes no auth record. A request that fails no check goes on
\* to the INSERT.
C27_FirstFailingCheckOnly ==
    [][(reqs' = reqs + 1
        /\ (spCalls' # spCalls
            \/ (last'.op = "SingPassServiceAuthToken" /\ last'.service)))
       => LET b == IF spCalls' # spCalls THEN spCalls'[Len(spCalls')].body
                   ELSE last'.req.body
              failing == FailingChecks(b, spAuth)
          IN IF failing = {}
             THEN spCalls' # spCalls /\ spAuth' = spAuth /\ spToken' = spToken
             ELSE /\ spCalls' = spCalls
                  /\ last'.rc = 40
                  /\ last'.mc = TokenChecks(b, spAuth)[Min(failing)].mc
                  /\ last'.fields = <<TokenChecks(b, spAuth)[Min(failing)].field>>
                  /\ last'.data = NoData
                  /\ spAuth' = spAuth
                  /\ spToken' = spToken]_vars

\* C27 witness: a request with a blank scope and an unregistered callback
\* URL was answered with 40004 alone, over a store with an auth record.
C27_Witness ==
    /\ last.op = "SingPassServiceAuthToken"
    /\ last.service
    /\ Cardinality(FailingChecks(last.req.body, spAuth)) >= 2
    /\ last.req.body.callbackURL = "http://evil/cb"
    /\ last.mc = 40004
    /\ last.fields = <<"scope">>
    /\ spAuth # <<>>

(***************************************************************************)
(* Properties of the user endpoints (SpecRegister, SpecUsers,              *)
(* SpecAdminUsers).                                                        *)
(***************************************************************************)
\* No two users share a username or an e-mail address.
UsersUnique(rows) ==
    \A i, j \in DOMAIN rows :
        i # j => rows[i].username # rows[j].username /\ rows[i].email # rows[j].email

\* Some user has the username or the e-mail address of the request.
Taken(rows, req) ==
    \E i \in DOMAIN rows : rows[i].username = req.username \/ rows[i].email = req.email

\* C25: under any interleaving of Register calls at most one user exists
\* per username and per email; a Register (of a request that passes the
\* validation) whose username or email is taken when it is answered
\* creates no user and is answered with HTTP 409, also when only the unique
\* index refuses the INSERT after both existence checks passed; a call
\* that has answered takes no further step.
C25_RegisterKeepsUsersUnique ==
    [][/\ UsersUnique(users')
       /\ \A c \in DOMAIN regCalls :
             regCalls[c].pc = "done" => regCalls'[c] = regCalls[c]
       /\ ( /\ last'.op = "Register"
            /\ \/ (reqs' = reqs + 1 /\ regCalls' = regCalls)
               \/ \E c \in DOMAIN regCalls :
                     regCalls[c].pc # "done" /\ regCalls'[c].pc = "done"
            /\ last'.req.json /\ RegisterValid(last'.req)
            /\ Taken(users, last'.req) )
          => (users' = users /\ last'.http = 409)]_vars

\* C25 witness: two calls for the same username passed both existence
\* checks; one user was stored and the other call was refused by the index
\* and answered 409.
C25_Witness ==
    /\ last.op = "Register"
    /\ last.http = 409
    /\ last.data = ErrorData("failed to create user")
    /\ Cardinality({i \in DOMAIN users : users[i].username = last.req.username}) = 1
    /\ \A c \in DOMAIN regCalls : regCalls[c].pc = "done"

\* A step in which PUT /auth/profile answered.
UpdateProfileStep == last'.op = "UpdateProfile" /\ reqs' = reqs + 1

\* C28: UpdateProfile never changes the caller's role or is_active flag,
\* whatever keys and key spellings the payload has, and it modifies no row
\* other than the one whose id is the authenticated user_id.
C28_ProfileUpdateKeepsRoleAndActive ==
    [][UpdateProfileStep =>
          /\ Len(users') = Len(users)
          /\ \A i \in DOMAIN users :
                /\ users'[i].role = users[i].role
                /\ users'[i].isActive = users[i].isActive
                /\ i # ParseUint(AuthRequired(AppEnv, last'.req.auth).user_id).value
                      => users'[i] = users[i]]_vars

\* What holds of UpdateProfile: no row other than the caller's is modified,
\* and a payload whose keys are all spelled as database columns leaves role
\* and is_active alone.
ProfileUpdateOnlyOwnRow ==
    [][UpdateProfileStep =>
          /\ Len(users') = Len(users)
          /\ \A i \in DOMAIN users :
                /\ i # ParseUint(AuthRequired(AppEnv, last'.req.auth).user_id).value
                      => users'[i] = users[i]
                /\ (\A k \in DOMAIN last'.req.payload : LookUpColumnOnly(k) # "")
                      => /\ users'[i].role = users[i].role
                         /\ users'[i].isActive = users[i].isActive]_vars

\* A caller registered with role "user" made itself an administrator.
ProfileUpdateRaisedRole ==
    /\ last.op = "UpdateProfile"
    /\ last.http = 200
    /\ last.req.payload = [k \in {"Role"} |-> "admin"]
    /\ Len(users) >= 2
    /\ users[2].role = "admin"

\* A step in which POST /auth/login answered.
LoginStep == last'.op = "Login" /\ reqs' = reqs + 1

\* The deactivated users a login request is for: the identifier is the
\* user's username or email and the password is the user's own.
DeactivatedNamed(rows, req) ==
    {i \in DOMAIN rows :
        /\ ~rows[i].isActive
        /\ req.username \in {rows[i].username, rows[i].email}
        /\ CheckPasswordHash(req.password, rows[i].password)}

\* C29: while a user is deactivated, every Login for that user is rejected
\* with HTTP 401 and "account is deactivated" and issues no token, even with
\* the correct password; Login changes no user row.
C29_DeactivatedUserCannotLogin ==
    [][LoginStep =>
          /\ users' = users
          /\ DeactivatedNamed(users, last'.req) # {}
                => /\ last'.http = 401
                   /\ last'.data = ErrorData("account is deactivated")]_vars

\* What holds of Login: it changes no user row, and when the first row its
\* lookup finds is deactivated the answer is 401 "account is deactivated".
LoginOfFirstMatchRejected ==
    [][LoginStep =>
          /\ users' = users
          /\ ( /\ UsersByLogin(users, last'.req.username) # {}
               /\ ~users[Min(UsersByLogin(users, last'.req.username))].isActive )
                => /\ last'.http = 401
                   /\ last'.data = ErrorData("account is deactivated")]_vars

\* A Login with the username and the password of a deactivated user was
\* answered "invalid credentials": the lookup found another user first.
DeactivatedLoginOtherAnswer ==
    /\ last.op = "Login"
    /\ last.http = 401
    /\ last.data = ErrorData("invalid credentials")
    /\ \E i \in DOMAIN users :
          /\ ~users[i].isActive
          /\ users[i].username = last.req.username
          /\ CheckPasswordHash(last.req.password, users[i].password)

\* A step in which GET /admin/users or PUT /admin/users/:id/deactivate
\* answered.
AdminUserStep ==
    /\ last'.op \in {"GetAllUsers", "DeactivateUser"}
    /\ reqs' = reqs + 1

\* C30: GetAllUsers and DeactivateUser act only for a caller whose
\* authenticated role is "admin": a request authenticated with any other
\* role is answered 403 "Admin access required", lists no user and leaves
\* every user row as it was; an unauthenticated one is stopped with 401.
C30_AdminRoleRequired ==
    [][AdminUserStep =>
          /\ last'.role # "admin" =>
                /\ users' = users
                /\ last'.http = (IF last'.handler THEN 403 ELSE 401)
                /\ last'.handler => last'.data = ErrorData("Admin access required")
          /\ last'.http = 200 => last'.role = "admin"
          /\ users' # users => last'.op = "DeactivateUser" /\ last'.http = 200]_vars

\* C30 witness: a caller authenticated with role "user" asked to deactivate
\* a stored, active user and was answered 403; the user is still active.
C30_Witness ==
    /\ last.op = "DeactivateUser"
    /\ last.handler
    /\ last.role = "user"
    /\ last.http = 403
    /\ last.req.id \in DOMAIN users
    /\ users[last.req.id].isActive

====
